---- MODULE Spec2Model ----
(***************************************************************************)
(* LifeAdmin voice agent: the recurring-task scheduler (workflow store,    *)
(* due computation, scheduled-run driver) and the booking orchestrator     *)
(* (session state machine driven by classified intents).                   *)
(*                                                                         *)
(* Time is counted in whole seconds since the Unix epoch; the process runs *)
(* with TZ=UTC, so the local-time setters of Date and toISOString agree.   *)
(* An ISO-8601 string is modelled by its calendar fields.                  *)
(***************************************************************************)
EXTENDS Integers, Sequences, FiniteSets, TLC

\* null / undefined / "" : every falsy value a string-typed field can hold
Null == <<>>

----------------------------------------------------------------------------
(* Date: calendar arithmetic as performed by the JavaScript Date object.   *)

IsLeap(y) == (y % 4 = 0 /\ y % 100 # 0) \/ y % 400 = 0

DaysInYear(y) == IF IsLeap(y) THEN 366 ELSE 365

\* m is 0-based, as in Date.getMonth()
DaysInMonth(y, m) ==
  IF m = 1 THEN (IF IsLeap(y) THEN 29 ELSE 28)
  ELSE IF m \in {3, 5, 8, 10} THEN 30 ELSE 31

RECURSIVE DaysBeforeYear(_)
DaysBeforeYear(y) == IF y <= 1970 THEN 0 ELSE DaysBeforeYear(y - 1) + DaysInYear(y - 1)

RECURSIVE DaysBeforeMonth(_, _)
DaysBeforeMonth(y, m) == IF m = 0 THEN 0 ELSE DaysBeforeMonth(y, m - 1) + DaysInMonth(y, m - 1)

\* MakeDay/MakeTime/MakeDate of the Date object: out-of-range fields overflow
\* into the next larger unit (setMonth(12) is January of the next year,
\* setDate(32) runs into the next month).
MakeTime(y, mo, d, h, mi, s) ==
  LET yy == y + (mo \div 12)
      mm == mo % 12
  IN  (DaysBeforeYear(yy) + DaysBeforeMonth(yy, mm) + (d - 1)) * 86400
        + h * 3600 + mi * 60 + s

RECURSIVE YearOfDay(_, _)
YearOfDay(days, y) ==
  IF days < DaysInYear(y) THEN <<y, days>> ELSE YearOfDay(days - DaysInYear(y), y + 1)

RECURSIVE MonthOfDay(_, _, _)
MonthOfDay(days, y, m) ==
  IF days < DaysInMonth(y, m) THEN <<m, days>> ELSE MonthOfDay(days - DaysInMonth(y, m), y, m + 1)

\* the calendar fields of a time value (getFullYear, getMonth, getDate, ...)
Fields(t) ==
  LET yd == YearOfDay(t \div 86400, 1970)
      md == MonthOfDay(yd[2], yd[1], 0)
      r  == t % 86400
  IN  [y |-> yd[1], mo |-> md[1], d |-> md[2] + 1,
       h |-> r \div 3600, mi |-> (r % 3600) \div 60, s |-> r % 60]

\* Date.getDay(): 0 = Sunday; 1970-01-01 was a Thursday
getDay(t) == ((t \div 86400) + 4) % 7

\* the time value of a full set of calendar fields
FromFields(f) == MakeTime(f.y, f.mo, f.d, f.h, f.mi, f.s)

setSeconds(t, v) == FromFields([Fields(t) EXCEPT !.s = v])
setMinutes(t, v) == FromFields([Fields(t) EXCEPT !.mi = v])
setHours(t, v)   == FromFields([Fields(t) EXCEPT !.h = v])
setDate(t, v)    == FromFields([Fields(t) EXCEPT !.d = v])
setMonth(t, v)   == FromFields([Fields(t) EXCEPT !.mo = v])

\* Date.prototype.toISOString: "YYYY-MM-DDTHH:mm:ss.sssZ" (month printed 1-based)
toISOString(t) ==
  LET f == Fields(t) IN <<f.y, f.mo + 1, f.d, f.h, f.mi, f.s>>

\* new Date(isoString)
NewDate(iso) == MakeTime(iso[1], iso[2] - 1, iso[3], iso[4], iso[5], iso[6])

\* string comparison a < b of two ISO strings (lexicographic)
RECURSIVE LexLess(_, _, _)
LexLess(a, b, i) ==
  IF i > Len(a) \/ i > Len(b) THEN Len(a) < Len(b)
  ELSE IF a[i] # b[i] THEN a[i] < b[i]
  ELSE LexLess(a, b, i + 1)

IsoLess(a, b) == LexLess(a, b, 1)

\* isoString.split("T")[0]
DatePart(iso) == <<iso[1], iso[2], iso[3]>>

----------------------------------------------------------------------------
(* Workflow store: workflows.json and executions.json, read and written    *)
(* whole by every operation.                                               *)

UpperChar(c) ==
  CASE c = "p" -> "P" [] c = "t" -> "T" [] c = "d" -> "D" [] c = "w" -> "W"
    [] c = "m" -> "M" [] c = "y" -> "Y" [] c = "h" -> "H" [] OTHER -> c

\* String.prototype.toUpperCase on a string given as its characters
toUpperCase(str) == [i \in 1..Len(str) |-> UpperChar(str[i])]

\* the patterns table of parseIntervalToMs, in seconds; 0 stands for a key
\* that is not in the table (undefined)
patterns(key) ==
  CASE key = <<"P","1","D">> -> 24 * 60 * 60
    [] key = <<"P","1","W">> -> 7 * 24 * 60 * 60
    [] key = <<"P","2","W">> -> 14 * 24 * 60 * 60
    [] key = <<"P","1","M">> -> 30 * 24 * 60 * 60
    [] key = <<"P","3","M">> -> 90 * 24 * 60 * 60
    [] key = <<"P","6","M">> -> 180 * 24 * 60 * 60
    [] key = <<"P","1","Y">> -> 365 * 24 * 60 * 60
    [] key = <<"P","T","1","M">> -> 60
    [] key = <<"P","T","5","M">> -> 5 * 60
    [] key = <<"P","T","1","H">> -> 60 * 60
    [] OTHER -> 0

\* the table looked up with the token as it was given
parseIntervalToMsCaseSensitive(interval) ==
  LET ms == patterns(interval)
  IN  IF ms # 0 THEN ms ELSE patterns(<<"P","3","M">>)

parseIntervalToMs(interval) ==
  LET ms == patterns(toUpperCase(interval))
  IN  IF ms # 0 THEN ms ELSE patterns(<<"P","3","M">>)

DigitValue(c) ==
  CASE c = "0" -> 0 [] c = "1" -> 1 [] c = "2" -> 2 [] c = "3" -> 3 [] c = "4" -> 4
    [] c = "5" -> 5 [] c = "6" -> 6 [] c = "7" -> 7 [] c = "8" -> 8 [] c = "9" -> 9

\* parseInt(str, 10) of a string of decimal digits
RECURSIVE parseInt(_)
parseInt(str) ==
  IF Len(str) = 0 THEN 0
  ELSE parseInt(SubSeq(str, 1, Len(str) - 1)) * 10 + DigitValue(str[Len(str)])

Star == <<"*">>

\* month.startsWith("*/")
StartsWithStarSlash(f) == Len(f) >= 2 /\ f[1] = "*" /\ f[2] = "/"

\* Math.ceil(a / b) for integers a >= 0, b > 0
CeilDiv(a, b) == (a + b - 1) \div b

\* cron is the expression split at " ": a sequence of fields, each a string
\* given as its characters.  The result is the time value that is then
\* printed by toISOString.
calculateNextRunFromCron(cron, fromDate) ==
  IF Len(cron) # 5 THEN fromDate + 90 * 24 * 60 * 60
  ELSE
    LET minute     == cron[1]
        hour       == cron[2]
        dayOfMonth == cron[3]
        month      == cron[4]
        t0 == setSeconds(fromDate, 0)
        t1 == IF minute # Star THEN setMinutes(t0, parseInt(minute)) ELSE t0
        t2 == IF hour # Star THEN setHours(t1, parseInt(hour)) ELSE t1
        t3 == IF StartsWithStarSlash(month)
              THEN LET interval     == parseInt(SubSeq(month, 3, Len(month)))
                       currentMonth == Fields(t2).mo
                       nextMonth    == CeilDiv(currentMonth + 1, interval) * interval
                   IN  setMonth(t2, nextMonth)
              ELSE t2
        t4 == IF dayOfMonth # Star THEN setDate(t3, parseInt(dayOfMonth)) ELSE t3
    IN  IF t4 <= fromDate
        THEN IF StartsWithStarSlash(month)
             THEN setMonth(t4, Fields(t4).mo + parseInt(SubSeq(month, 3, Len(month))))
             ELSE setDate(t4, Fields(t4).d + 1)
        ELSE t4

----------------------------------------------------------------------------
(* Bounds of the model                                                     *)

\* workflows created in one behaviour (beside those the store starts with)
MaxCreates == 1
\* the clock stops advancing here (seconds)
MaxClock == 60
\* execution records appended in one behaviour
MaxLog == 1

----------------------------------------------------------------------------
VARIABLES
  clock,        \* wall clock, seconds since the epoch
  workflows,    \* workflows.json: sequence of Workflow records, storage order
  executions,   \* executions.json: sequence of Execution records
  nextWfId,     \* generateId(): ids are unique; the n-th workflow has id n
  nextExecId,   \* ids of Execution records are unique; the n-th record
                \* appended in this behaviour has id n
  created,      \* number of workflows created so far in this behaviour
  last,         \* the most recent operation and what it returned
  cronSchedule, \* a schedule handed to createWorkflow (its fields)
  cronFrom,     \* ... and the time of the call
  cronNext,     \* the next_run it stored (Null before the call)
  bookingSessions,  \* the bookingSessions map, as the set of its sessions
  currentSessionId, \* id of the active session, or Null
  nextSessionId,    \* generateSessionId(): the n-th session has id <<"session", n>>
  steps,            \* commands handled and clock advances so far
  pendingActions,   \* the pendingActions map: its entries in insertion order
  nextActionId,     \* generateActionId(): the n-th pending action has id n
  inflight          \* the async calls awaiting runTask (a first run stays listed,
                    \* marked done, once runTask has returned)

wfVars == <<workflows, executions, nextWfId, nextExecId, created>>
cronVars == <<cronSchedule, cronFrom, cronNext>>
bkVars == <<bookingSessions, currentSessionId, nextSessionId, steps>>
pendVars == <<pendingActions, nextActionId>>
vars == <<clock, last, wfVars, cronVars, bkVars, pendVars, inflight>>

WfIdle ==
  workflows = <<>> /\ executions = <<>> /\ nextWfId = 1 /\ nextExecId = 1 /\ created = 0
CronIdle == cronSchedule = Null /\ cronFrom = 0 /\ cronNext = Null
BkIdle ==
  bookingSessions = {} /\ currentSessionId = Null /\ nextSessionId = 1 /\ steps = 0
PendIdle == pendingActions = <<>> /\ nextActionId = 1
\* no call is awaiting anything
NoneInFlight == inflight = <<>>

NoInterval == Null
NoSchedule == Null

PT1M == <<"P","T","1","M">>

\* findIndex((w) => w.id === id); 0 stands for -1
FindIndex(store, id) ==
  IF \E i \in 1..Len(store) : store[i].id = id
  THEN CHOOSE i \in 1..Len(store) :
         store[i].id = id /\ \A j \in 1..(i - 1) : store[j].id # id
  ELSE 0

\* the record createWorkflow pushes (new revision: next_run computed at once)
NewWorkflow(id, interval, schedule, now) ==
  [id         |-> id,
   interval   |-> interval,
   schedule   |-> schedule,
   last_run   |-> Null,
   next_run   |-> IF schedule # Null
                  THEN toISOString(calculateNextRunFromCron(schedule, now))
                  ELSE IF interval # Null
                       THEN toISOString(now + parseIntervalToMs(interval))
                       ELSE Null,
   created_at |-> toISOString(now)]

createWorkflow(store, id, interval, schedule, now) ==
  Append(store, NewWorkflow(id, interval, schedule, now))

\* the record the previous revision of createWorkflow wrote: no next_run field
LegacyWorkflow(id, interval, now) ==
  [id |-> id, interval |-> interval, schedule |-> Null, last_run |-> Null,
   next_run |-> Null, created_at |-> toISOString(now)]

\* the rule with the never-run test ahead of the next_run test
IsDueNeverRunFirst(workflow, now) ==
  IF workflow.last_run = Null
  THEN TRUE
  ELSE IF workflow.next_run # Null
       THEN now >= NewDate(workflow.next_run)
       ELSE now >= NewDate(workflow.last_run)
                   + (IF workflow.interval # Null
                      THEN parseIntervalToMs(workflow.interval)
                      ELSE 90 * 24 * 60 * 60)

\* the filter predicate of getDueWorkflows
IsDue(workflow, now) ==
  IF workflow.next_run # Null
  THEN now >= NewDate(workflow.next_run)
  ELSE IF workflow.last_run = Null
       THEN TRUE
       ELSE now >= NewDate(workflow.last_run)
                     + parseIntervalToMs(IF workflow.interval # Null
                                         THEN workflow.interval
                                         ELSE <<"P","3","M">>)

getDueWorkflows(store, now) ==
  LET Due(w) == IsDue(w, now) IN SelectSeq(store, Due)

updateWorkflowLastRun(store, id, now) ==
  LET index == FindIndex(store, id)
  IN  IF index # 0
      THEN [store EXCEPT ![index].last_run = toISOString(now)]
      ELSE store

deleteWorkflow(store, id) ==
  LET index == FindIndex(store, id)
  IN  IF index # 0
      THEN SubSeq(store, 1, index - 1) \o SubSeq(store, index + 1, Len(store))
      ELSE store

\* the next run markWorkflowRun computes for a stored workflow
NextRunAfter(workflow, executedAt) ==
  IF workflow.schedule # Null
  THEN toISOString(calculateNextRunFromCron(workflow.schedule, executedAt))
  ELSE IF workflow.interval # Null
       THEN toISOString(executedAt + parseIntervalToMs(workflow.interval))
       ELSE toISOString(executedAt + 90 * 24 * 60 * 60)

\* a run recorded without rescheduling
markWorkflowRunKeepsNextRun(store, id, executedAt) ==
  LET index == FindIndex(store, id)
  IN  [store EXCEPT ![index].last_run = toISOString(executedAt)]

\* the store markWorkflowRun writes (the id is known to be present)
markWorkflowRun(store, id, executedAt) ==
  LET index == FindIndex(store, id)
  IN  [store EXCEPT ![index].last_run = toISOString(executedAt),
                    ![index].next_run = NextRunAfter(store[index], executedAt)]

MAX_EXECUTIONS == 100

\* a log that, once full, keeps what it holds and drops the new record
saveExecutionKeepsOldest(log, execution) ==
  LET all == Append(log, execution)
  IN  IF Len(all) > MAX_EXECUTIONS
      THEN SubSeq(all, 1, MAX_EXECUTIONS)
      ELSE all

\* executions.push(execution); executions.slice(-100)
saveExecution(log, execution) ==
  LET all == Append(log, execution)
  IN  IF Len(all) > MAX_EXECUTIONS
      THEN SubSeq(all, Len(all) - MAX_EXECUTIONS + 1, Len(all))
      ELSE all

ManualWorkflowId == 0

----------------------------------------------------------------------------
(* Workflow routes, the command pipeline's recurring-task branch and the   *)
(* scheduled-run driver.  Each inbound request or trigger is handled to    *)
(* completion before the next one (single writer).                         *)

\* the largest store the model starts from
InitialStoreMax == <<LegacyWorkflow(1, PT1M, 0)>>

\* workflows.json as left by the previous revision, or no file yet
InitialStores == { <<>>, InitialStoreMax }

QuarterlyCron == << <<"0">>, <<"0">>, <<"1">>, <<"*","/","3">>, <<"*">> >>

\* request bodies of POST /api/workflows: <<interval, schedule>>
CreateInputs == { <<PT1M, NoSchedule>>, <<NoInterval, QuarterlyCron>> }

\* task.interval of a create_recurring_task intent ("" when the classifier
\* gave none)
TaskIntervals == { PT1M, NoInterval }

\* seconds the clock advances between requests, and seconds a first run takes
ClockSteps == {60}
RunDurations == {0, 60}

ExecutorOutcomes == {"success", "failure", "throw"}

\* ids a request may name: those of the stored workflows and one that is not stored
WorkflowIds == 1..(Len(InitialStoreMax) + MaxCreates + 1)

\* what the most recent operation was and what it returned; ret carries the
\* batch of result records when the scheduled-run driver returns, now the
\* driver's snapshot of the time
Op(op, id, outcome, ret, now) ==
  [op |-> op, id |-> id, outcome |-> outcome, ret |-> ret, now |-> now]

WfInit ==
  /\ clock = 0
  /\ workflows \in InitialStores
  /\ nextWfId = Len(workflows) + 1
  /\ created = 0
  /\ executions = <<>>
  /\ nextExecId = 1
  /\ last = Op("init", 0, "ok", <<>>, 0)
  /\ CronIdle
  /\ BkIdle
  /\ PendIdle
  /\ NoneInFlight

AdvanceClock(d) ==
  /\ clock + d <= MaxClock
  /\ clock' = clock + d
  /\ last' = Op("advance", 0, "ok", <<>>, clock')
  /\ UNCHANGED <<workflows, executions, nextWfId, nextExecId, created>>

\* POST /api/workflows
PostWorkflow(interval, schedule) ==
  /\ created < MaxCreates
  /\ schedule # Null \/ interval # Null
  /\ workflows' = createWorkflow(workflows, nextWfId, interval, schedule, clock)
  /\ nextWfId' = nextWfId + 1
  /\ created' = created + 1
  /\ last' = Op("create", nextWfId, "created", <<>>, clock)
  /\ UNCHANGED <<clock, executions, nextExecId>>

\* the summary markWorkflowRun returns for the workflow it updated
RunSummary(workflow, success) ==
  [workflowId |-> workflow.id,
   lastRun    |-> workflow.last_run,
   nextRun    |-> workflow.next_run,
   status     |-> IF success THEN "success" ELSE "failed"]

\* a mark-run handler that records the run although the id is not stored
PostMarkRunLogsMissing(id, executedAt, success) ==
  LET index == FindIndex(workflows, id)
      executedDate == IF executedAt # Null THEN NewDate(executedAt) ELSE clock
  IN  /\ nextExecId <= MaxLog
      /\ workflows' = IF index = 0 THEN workflows
                      ELSE markWorkflowRun(workflows, id, executedDate)
      /\ executions' = saveExecution(executions,
                          [id |-> nextExecId, workflowId |-> id,
                           success |-> success,
                           executedAt |-> toISOString(executedDate)])
      /\ nextExecId' = nextExecId + 1
      /\ last' = IF index = 0
                 THEN Op("markRun", id, "notfound", <<>>, executedDate)
                 ELSE Op("markRun", id, IF success THEN "success" ELSE "failed",
                         RunSummary(workflows'[index], success), executedDate)
      /\ UNCHANGED <<clock, nextWfId, created>>

\* POST /api/workflows/:id/mark-run; executedAt is the ISO string the body
\* carries, Null when it carries none (the handler then takes the current time)
PostMarkRun(id, executedAt, success) ==
  LET index == FindIndex(workflows, id)
      executedDate == IF executedAt # Null THEN NewDate(executedAt) ELSE clock
  IN  IF index = 0
      THEN /\ last' = Op("markRun", id, "notfound", <<>>, executedDate)
           /\ UNCHANGED <<clock, workflows, executions, nextWfId, nextExecId, created>>
      ELSE /\ nextExecId <= MaxLog
           /\ workflows' = markWorkflowRun(workflows, id, executedDate)
           /\ executions' = saveExecution(executions,
                               [id |-> nextExecId, workflowId |-> id,
                                success |-> success,
                                executedAt |-> toISOString(executedDate)])
           /\ nextExecId' = nextExecId + 1
           /\ last' = Op("markRun", id, IF success THEN "success" ELSE "failed",
                         RunSummary(workflows'[index], success), executedDate)
           /\ UNCHANGED <<clock, nextWfId, created>>

\* DELETE /api/workflows/:id
DeleteWorkflow(id) ==
  /\ workflows' = deleteWorkflow(workflows, id)
  /\ last' = Op("delete", id,
                IF FindIndex(workflows, id) # 0 THEN "deleted" ELSE "notfound",
                <<>>, clock)
  /\ UNCHANGED <<clock, executions, nextWfId, nextExecId, created>>

\* POST /api/report-result
PostReportResult(success) ==
  /\ nextExecId <= MaxLog
  /\ executions' = saveExecution(executions,
                      [id |-> nextExecId, workflowId |-> ManualWorkflowId,
                       success |-> success,
                       executedAt |-> toISOString(clock)])
  /\ nextExecId' = nextExecId + 1
  /\ last' = Op("reportResult", ManualWorkflowId, "received", <<>>, clock)
  /\ UNCHANGED <<clock, workflows, nextWfId, created>>

\* executeIntent, case "create_recurring_task": the workflow is created, the
\* first run is awaited (it takes d seconds) and, when it succeeded, last_run
\* is set to the time after the run
CmdCreateRecurring(interval, outcome, d) ==
  /\ created < MaxCreates
  /\ clock + d <= MaxClock
  /\ LET stored == createWorkflow(workflows, nextWfId,
                                   IF interval # Null THEN interval ELSE <<"P","3","M">>,
                                   NoSchedule, clock)
     IN  workflows' = IF outcome = "success"
                      THEN updateWorkflowLastRun(stored, nextWfId, clock + d)
                      ELSE stored
  /\ clock' = clock + d
  /\ nextWfId' = nextWfId + 1
  /\ created' = created + 1
  /\ last' = Op("createRecurring", nextWfId, outcome, <<>>, clock)
  /\ UNCHANGED <<executions, nextExecId>>

\* the body of the driver's loop for the due workflows due[i..], each run
\* ending as outcomes[i] says: last_run is updated unless the run threw
RECURSIVE RunDue(_, _, _, _, _)
RunDue(store, due, outcomes, now, i) ==
  IF i > Len(due) THEN store
  ELSE RunDue(IF outcomes[i] # "throw"
              THEN updateWorkflowLastRun(store, due[i].id, now)
              ELSE store,
              due, outcomes, now, i + 1)

\* the batch the driver abandons at the first exception
RECURSIVE executedWorkflowsAbortOnThrow(_, _, _)
executedWorkflowsAbortOnThrow(due, outcomes, now) ==
  IF Len(due) = 0 \/ outcomes[1] = "throw" THEN <<>>
  ELSE <<[id      |-> due[1].id,
          ranAt   |-> toISOString(now),
          success |-> (outcomes[1] = "success"),
          caught  |-> FALSE]>>
       \o executedWorkflowsAbortOnThrow(Tail(due), Tail(outcomes), now)

\* executedWorkflows as the driver's loop leaves it: one record per due
\* workflow, pushed after the run or in the catch block
executedWorkflows(due, outcomes, now) ==
  [i \in 1..Len(due) |->
     [id      |-> due[i].id,
      ranAt   |-> toISOString(now),
      success |-> (outcomes[i] = "success"),
      caught  |-> (outcomes[i] = "throw")]]

\* the times a mark-run request names in this specification
MarkRunTimes == {Null}

\* GET /api/check-workflows: runScheduledTasks
RunScheduledTasks ==
  LET now == clock
      dueWorkflows == getDueWorkflows(workflows, now)
  IN  \E outcomes \in [1..Len(dueWorkflows) -> ExecutorOutcomes] :
        /\ workflows' = RunDue(workflows, dueWorkflows, outcomes, now, 1)
        /\ last' = Op("checkWorkflows", 0, "returned",
                      executedWorkflows(dueWorkflows, outcomes, now), now)
        /\ UNCHANGED <<clock, executions, nextWfId, nextExecId, created>>

WfStep ==
  \/ \E d \in ClockSteps : AdvanceClock(d)
  \/ \E in \in CreateInputs : PostWorkflow(in[1], in[2])
  \/ \E id \in WorkflowIds, executedAt \in MarkRunTimes, success \in BOOLEAN :
        PostMarkRun(id, executedAt, success)
  \/ \E id \in WorkflowIds : DeleteWorkflow(id)
  \/ \E success \in BOOLEAN : PostReportResult(success)
  \/ \E interval \in TaskIntervals, outcome \in ExecutorOutcomes, d \in RunDurations :
        CmdCreateRecurring(interval, outcome, d)
  \/ RunScheduledTasks

WfNext == WfStep /\ UNCHANGED <<cronVars, bkVars, pendVars, inflight>>

SpecWorkflow == WfInit /\ [][WfNext]_vars

----------------------------------------------------------------------------
(* Claims about the workflow store and the scheduled-run driver            *)

\* the times at which a workflow's due-ness can change, and their neighbours
Thresholds(w) ==
  (IF w.next_run # Null THEN {NewDate(w.next_run)} ELSE {})
  \cup (IF w.last_run # Null /\ w.interval # Null
        THEN {NewDate(w.last_run) + parseIntervalToMs(w.interval)} ELSE {})
  \cup (IF w.interval # Null
        THEN {NewDate(w.created_at) + parseIntervalToMs(w.interval)} ELSE {})

ProbeTimes(w) ==
  {0, clock, clock + 59, clock + 60}
  \cup {t - 1 : t \in {u \in Thresholds(w) : u > 0}}
  \cup Thresholds(w)
  \cup {t + 1 : t \in Thresholds(w)}

ReturnedDue(w, now) ==
  LET due == getDueWorkflows(workflows, now)
  IN  \E i \in 1..Len(due) : due[i] = w

\* C1: after the scheduled-run driver has run a due workflow at trigger time
\* now and the executor reported success or failure, the workflow is not
\* returned by dueWorkflows(t) for any t with now <= t < now + parsed(interval).
C1_ScheduleAdvancedAfterRun ==
  last.op = "checkWorkflows" =>
    \A i \in 1..Len(last.ret) :
      LET index == FindIndex(workflows, last.ret[i].id)
      IN  (~last.ret[i].caught /\ index # 0 /\ workflows[index].interval # Null) =>
            \A t \in {last.now,
                       last.now + parseIntervalToMs(workflows[index].interval) - 1} :
              ~ReturnedDue(workflows[index], t)

\* C7: every interval workflow's nextRun equals (lastRun, or the creation
\* time when lastRun is null) + parsed(interval), in every state reached
\* through create, markRun, the driver's last-run update and the command
\* pipeline's recurring-task creation.
C7_NextRunDerived ==
  \A i \in 1..Len(workflows) :
    LET w == workflows[i]
    IN  (w.interval # Null /\ w.schedule = Null /\ w.next_run # Null) =>
          w.next_run = toISOString(
                         (IF w.last_run # Null THEN NewDate(w.last_run)
                                               ELSE NewDate(w.created_at))
                         + parseIntervalToMs(w.interval))

\* the due rule as the claim states it
ClaimedDue(w, now) ==
  \/ w.next_run # Null /\ NewDate(w.next_run) <= now
  \/ w.next_run = Null /\ w.last_run = Null
  \/ /\ w.next_run = Null
     /\ w.last_run # Null
     /\ now >= NewDate(w.last_run)
                 + (IF w.interval # Null THEN parseIntervalToMs(w.interval)
                                         ELSE 90 * 24 * 60 * 60)

IsPT1M(w) == w.interval # Null /\ toUpperCase(w.interval) = PT1M /\ w.schedule = Null

DueAt(store, now) == SelectSeq(store, LAMBDA w : ClaimedDue(w, now))

\* C12: in one scheduled-run trigger an exception raised while running one
\* due workflow becomes a failed result record for that workflow and the
\* remaining due workflows are still run: the returned batch holds exactly
\* one record per workflow due at the trigger's snapshot of now, in storage
\* order.
C12_BatchCoversDue ==
  [][ last'.op = "checkWorkflows" =>
        LET due == DueAt(workflows, last'.now)
            ret == last'.ret
        IN  /\ Len(ret) = Len(due)
            /\ \A i \in 1..Len(due) :
                 /\ ret[i].id = due[i].id
                 /\ ret[i].caught => ~ret[i].success
                 /\ ~ret[i].caught =>
                      workflows'[FindIndex(workflows', due[i].id)].last_run
                        = toISOString(last'.now)
    ]_vars

\* a trigger with two due workflows: the run of the first threw, the second
\* was run and succeeded
C12_Witness ==
  /\ last.op = "checkWorkflows"
  /\ Len(last.ret) = 2
  /\ last.ret[1].caught
  /\ ~last.ret[1].success
  /\ last.ret[2].success
  /\ Len(workflows) = 2
  /\ workflows[2].id = last.ret[2].id
  /\ workflows[2].last_run = toISOString(last.now)

\* C13: every workflow run performed by the scheduled-run driver appends one
\* Execution record, carrying the workflow's id and the run's success flag,
\* to the execution log.
C13_DriverLogsRuns ==
  [][ last'.op = "checkWorkflows" =>
        LET ret == last'.ret
            n   == Len(ret)
            all == executions \o [i \in 1..n |-> ret[i]]
        IN  /\ Len(executions') = IF Len(all) > MAX_EXECUTIONS
                                  THEN MAX_EXECUTIONS ELSE Len(all)
            /\ \A i \in 1..n :
                 LET e == executions'[Len(executions') - n + i]
                 IN  e.workflowId = ret[i].id /\ e.success = ret[i].success
    ]_vars

\* C15: markRun on an id that is not in the workflow store (never created,
\* or already deleted) returns the not-found signal and changes nothing: no
\* workflow's lastRun or nextRun changes and no Execution record is appended.
C15_MarkRunMissingId ==
  [][ (last'.op = "markRun" /\ FindIndex(workflows, last'.id) = 0) =>
        /\ last'.outcome = "notfound"
        /\ workflows' = workflows
        /\ executions' = executions
    ]_vars

\* markRun has just answered not found for the id of a workflow that was
\* stored and has been deleted, while another workflow is stored
C15_Witness ==
  /\ last.op = "markRun"
  /\ last.outcome = "notfound"
  /\ last.id < nextWfId
  /\ FindIndex(workflows, last.id) = 0
  /\ Len(workflows) > 0

----------------------------------------------------------------------------
(* create followed by markRun, over the interval tokens in every letter    *)
(* case and a range of run times                                           *)

IntervalTokens ==
  { <<"P","1","D">>, <<"P","1","W">>, <<"P","2","W">>, <<"P","1","M">>,
    <<"P","3","M">>, <<"P","6","M">>, <<"P","1","Y">>,
    <<"P","T","1","M">>, <<"P","T","5","M">>, <<"P","T","1","H">> }

\* the duration each token stands for, in seconds
TokenSeconds(token) ==
  LET day == 86400
  IN  CASE token = <<"P","1","D">> -> day
        [] token = <<"P","1","W">> -> 7 * day
        [] token = <<"P","2","W">> -> 14 * day
        [] token = <<"P","1","M">> -> 30 * day
        [] token = <<"P","3","M">> -> 90 * day
        [] token = <<"P","6","M">> -> 180 * day
        [] token = <<"P","1","Y">> -> 365 * day
        [] token = <<"P","T","1","M">> -> 60
        [] token = <<"P","T","5","M">> -> 300
        [] token = <<"P","T","1","H">> -> 3600

SmallLetter(c) ==
  CASE c = "P" -> "p" [] c = "T" -> "t" [] c = "D" -> "d" [] c = "W" -> "w"
    [] c = "M" -> "m" [] c = "Y" -> "y" [] c = "H" -> "h" [] OTHER -> c

\* the spellings of a token: every letter in either case
LetterCases(token) ==
  { str \in [1..Len(token) -> {"P","T","D","W","M","Y","H","p","t","d","w","m","y","h",
                                "1","2","3","5","6"}] :
      \A i \in 1..Len(token) : str[i] \in {token[i], SmallLetter(token[i])} }

RtIntervals == UNION { LetterCases(token) : token \in IntervalTokens }

\* run times a mark-run request names: the epoch, the last second of 1971
\* and noon of 28 February 1972 (a leap year)
RtTimes ==
  { <<1970, 1, 1, 0, 0, 0>>, <<1971, 12, 31, 23, 59, 59>>, <<1972, 2, 28, 12, 0, 0>> }

RtInit ==
  /\ clock = 0
  /\ workflows = <<>>
  /\ nextWfId = 1
  /\ created = 0
  /\ executions = <<>>
  /\ nextExecId = 1
  /\ last = Op("init", 0, "ok", <<>>, 0)
  /\ CronIdle
  /\ BkIdle
  /\ PendIdle
  /\ NoneInFlight

RtStep ==
  \/ \E interval \in RtIntervals : PostWorkflow(interval, NoSchedule)
  \/ \E id \in WorkflowIds, executedAt \in RtTimes, success \in BOOLEAN :
        PostMarkRun(id, executedAt, success)

RtNext == RtStep /\ UNCHANGED <<cronVars, bkVars, pendVars, inflight>>

SpecRoundTrip == RtInit /\ [][RtNext]_vars

\* C11: for every interval token of the table, in any letter case, and every
\* time T, markRun at T on a workflow created with that interval stores
\* lastRun = T and nextRun = T + the token's duration exactly, and the
\* returned summary carries the same lastRun and nextRun.
C11_MarkRunRoundTrip ==
  (last.op = "markRun" /\ last.outcome # "notfound") =>
    LET w == workflows[FindIndex(workflows, last.id)]
        T == last.now
    IN  \A token \in IntervalTokens :
          w.interval \in LetterCases(token) =>
            /\ w.last_run = toISOString(T)
            /\ NewDate(w.last_run) = T
            /\ w.next_run = toISOString(T + TokenSeconds(token))
            /\ NewDate(w.next_run) = T + TokenSeconds(token)
            /\ last.ret.lastRun = w.last_run
            /\ last.ret.nextRun = w.next_run

\* markRun at noon of 28 February 1972 on a workflow created with "p1w":
\* nextRun is noon of 6 March 1972
C11_Witness ==
  /\ last.op = "markRun"
  /\ last.outcome # "notfound"
  /\ last.now = MakeTime(1972, 1, 28, 12, 0, 0)
  /\ \E i \in 1..Len(workflows) :
       /\ workflows[i].id = last.id
       /\ workflows[i].interval = <<"p","1","w">>
       /\ workflows[i].next_run = <<1972, 3, 6, 12, 0, 0>>
       /\ last.ret.nextRun = <<1972, 3, 6, 12, 0, 0>>

----------------------------------------------------------------------------
(* The execution log at its cap: markRun and report-result calls on a log  *)
(* that is empty or already holds MAX_EXECUTIONS records                   *)

\* executions.json after n report-result calls made before the behaviour
\* starts; their records carry the ids 1 - n .. 0
FilledLog(n) ==
  [i \in 1..n |-> [id |-> i - n, workflowId |-> ManualWorkflowId,
                   success |-> TRUE, executedAt |-> toISOString(0)]]

InitialLogs == { <<>>, FilledLog(MAX_EXECUTIONS) }

LogInit ==
  /\ clock = 0
  /\ workflows = InitialStoreMax
  /\ nextWfId = Len(workflows) + 1
  /\ created = 0
  /\ executions \in InitialLogs
  /\ nextExecId = 1
  /\ last = Op("init", 0, "ok", <<>>, 0)
  /\ CronIdle
  /\ BkIdle
  /\ PendIdle
  /\ NoneInFlight

LogStep ==
  \/ \E d \in ClockSteps : AdvanceClock(d)
  \/ \E id \in WorkflowIds, executedAt \in MarkRunTimes, success \in BOOLEAN :
        PostMarkRun(id, executedAt, success)
  \/ \E id \in WorkflowIds : DeleteWorkflow(id)
  \/ \E success \in BOOLEAN : PostReportResult(success)

LogNext == LogStep /\ UNCHANGED <<cronVars, bkVars, pendVars, inflight>>

SpecLog == LogInit /\ [][LogNext]_vars

----------------------------------------------------------------------------
(* createWorkflow's next_run for a cron schedule, over a range of          *)
(* schedules and call times                                                *)

CronMinutes == { <<"*">>, <<"0">>, <<"3","0">> }
CronHours   == { <<"*">>, <<"0">>, <<"9">> }
CronDays    == { <<"*">>, <<"1">> }
CronMonths  == { <<"*">>, <<"*","/","3">> }

\* "0 0 1 *": four fields only
MalformedCron == << <<"0">>, <<"0">>, <<"1">>, <<"*">> >>

CronSchedules ==
  { <<mi, h, d, mo, <<"*">> >> :
      mi \in CronMinutes, h \in CronHours, d \in CronDays, mo \in CronMonths }
  \cup { MalformedCron }

\* call times: the 1st and 15th of January and December 1970, 00:30:15 and 10:30:15
CronFromDates ==
  { MakeTime(1970, mo, d, h, 30, 15) : mo \in {0, 11}, d \in {1, 15}, h \in {0, 10} }

CronInit ==
  /\ cronSchedule \in CronSchedules
  /\ cronFrom \in CronFromDates
  /\ cronNext = Null
  /\ clock = cronFrom
  /\ last = Op("init", 0, "ok", <<>>, 0)
  /\ WfIdle
  /\ BkIdle
  /\ PendIdle
  /\ NoneInFlight

\* createWorkflow({schedule}) at cronFrom: next_run = calculateNextRunFromCron(schedule, now)
CronCreate ==
  /\ cronNext = Null
  /\ cronNext' = toISOString(calculateNextRunFromCron(cronSchedule, cronFrom))
  /\ last' = Op("create", 0, "created", <<>>, cronFrom)
  /\ UNCHANGED <<clock, wfVars, bkVars, pendVars, inflight, cronSchedule, cronFrom>>

CronNext == CronCreate

SpecCron == CronInit /\ [][CronNext]_vars

\* C9: for every 5-field schedule and every reference time, the next run
\* computed at create is strictly after the reference time.
C9_NextRunInFuture ==
  (cronNext # Null /\ Len(cronSchedule) = 5) => NewDate(cronNext) > cronFrom

----------------------------------------------------------------------------
(* Booking flow: the session store, provider search, provider and          *)
(* date/time selection, confirmation                                        *)

\* 30 * 60 * 1000 ms
SESSION_TTL == 30 * 60
\* period of the clean-up timer, 60000 ms
SWEEP_PERIOD == 60

LowerChar(c) ==
  CASE c = "B" -> "b" [] c = "C" -> "c" [] c = "D" -> "d" [] c = "S" -> "s"
    [] c = "M" -> "m" [] c = "O" -> "o" [] OTHER -> c

\* String.prototype.toLowerCase
toLowerCase(str) == [i \in 1..Len(str) |-> LowerChar(str[i])]

\* String.prototype.includes
Includes(str, sub) ==
  \E i \in 1..(Len(str) - Len(sub) + 1) : SubSeq(str, i, i + Len(sub) - 1) = sub

\* ratings in tenths of a star
Provider(id, name, rating) == [id |-> id, name |-> name, rating |-> rating]

\* results.sort((a, b) => b.rating - a.rating): stable, highest rating first
InsertByRating(sorted, p) ==
  LET k == Cardinality({i \in 1..Len(sorted) : sorted[i].rating >= p.rating})
  IN  SubSeq(sorted, 1, k) \o <<p>> \o SubSeq(sorted, k + 1, Len(sorted))

RECURSIVE SortByRating(_)
SortByRating(list) ==
  IF Len(list) = 0 THEN <<>>
  ELSE InsertByRating(SortByRating(SubSeq(list, 1, Len(list) - 1)), list[Len(list)])

\* searchProviders(category, undefined, limit) over the category's catalog entries
searchProviders(catalog, limit) ==
  LET results == SortByRating(catalog)
  IN  SubSeq(results, 1, IF Len(results) < limit THEN Len(results) ELSE limit)

\* getAvailableSlots: the next five days, weekends skipped; draw[i] is the
\* sorted list of slots the random draws gave day i, days without slots are
\* left out
RECURSIVE SlotsFrom(_, _, _)
SlotsFrom(now, draw, i) ==
  IF i > 5 THEN <<>>
  ELSE LET date == setDate(now, Fields(now).d + i)
           rest == SlotsFrom(now, draw, i + 1)
       IN  IF getDay(date) = 0 \/ getDay(date) = 6 THEN rest
           ELSE IF Len(draw[i]) > 0
                THEN <<[date |-> DatePart(toISOString(date)), slots |-> draw[i]]>> \o rest
                ELSE rest

getAvailableSlots(now, draw) == SlotsFrom(now, draw, 1)

SessionId(n) == <<"session", n>>

\* the session createBookingSession stores; absent fields are Null
NewSession(id, providerType, now) ==
  [id |-> id, providerType |-> providerType,
   createdAt |-> toISOString(now), expiresAt |-> toISOString(now + SESSION_TTL),
   providers |-> Null, selectedProvider |-> Null,
   availableSlots |-> Null, selectedDateTime |-> Null]

\* bookingSessions.get(id) || null
getSession(sessions, id) ==
  IF \E s \in sessions : s.id = id
  THEN CHOOSE s \in sessions : s.id = id
  ELSE Null

getCurrentSession(sessions, current) ==
  IF current = Null THEN Null ELSE getSession(sessions, current)

\* updateSession({[key]: value}): the store afterwards
updateSession(sessions, current, key, value) ==
  LET session == getCurrentSession(sessions, current)
  IN  IF session = Null THEN sessions
      ELSE (sessions \ {session}) \cup {[session EXCEPT ![key] = value]}

\* a clear that deletes the session and keeps pointing at it
clearSessionKeepsPointer(sessions, current) ==
  [sessions |-> {s \in sessions : s.id # current}, current |-> current]

\* clearSession(): the store and the current id afterwards
clearSession(sessions, current) ==
  IF current # Null
  THEN [sessions |-> {s \in sessions : s.id # current}, current |-> Null]
  ELSE [sessions |-> sessions, current |-> current]

\* one run of the clean-up timer's callback at time now
sweepExpired(sessions, now) ==
  {s \in sessions : ~IsoLess(s.expiresAt, toISOString(now))}

\* what a handler leaves behind: the store, the current id, and either the
\* HandleIntentResult it returned or the exception it threw; calls counts
\* the runTask invocations it made
Handled(sessions, current, message, actionExecuted, executionResult, calls) ==
  [sessions |-> sessions, current |-> current, thrown |-> FALSE,
   message |-> message, actionExecuted |-> actionExecuted,
   executionResult |-> executionResult, calls |-> calls]

Thrown(sessions, current, errorMessage, calls) ==
  [sessions |-> sessions, current |-> current, thrown |-> TRUE,
   message |-> <<errorMessage>>, actionExecuted |-> FALSE,
   executionResult |-> Null, calls |-> calls]

NoProvidersFound == "Ik kon geen tandartspraktijken vinden. Wil je dat ik zoek in een specifieke buurt?"
ProvidersFound == "Ik heb praktijken gevonden! De top 3: "

\* hasQuery: location || searchQuery; catalog: the category's entries of the
\* provider data; aiFirst, aiFallback: what the two AI searches return
handleSearchProviders(sessions, current, id, now, hasQuery, catalog, aiFirst, aiFallback) ==
  LET found     == IF hasQuery THEN aiFirst ELSE searchProviders(catalog, 5)
      providers == IF Len(found) = 0 THEN aiFallback ELSE found
  IN  IF Len(providers) = 0
      THEN Handled(sessions, current, <<NoProvidersFound>>, FALSE, Null, 0)
      ELSE LET stored == sessions \cup {NewSession(id, "tandarts", now)}
           IN  Handled(updateSession(stored, id, "providers", providers), id,
                       <<ProvidersFound, SubSeq(providers, 1, IF Len(providers) < 3 THEN Len(providers) ELSE 3)>>,
                       FALSE, Null, 0)

beste == <<"b","e","s","t","e">>
best == <<"b","e","s","t">>
eerste == <<"e","e","r","s","t","e">>
first == <<"f","i","r","s","t">>
morgen == <<"m","o","r","g","e","n">>
tomorrow == <<"t","o","m","o","r","r","o","w">>
overmorgen == <<"o","v","e","r","m","o","r","g","e","n">>

\* intent.selection: a string (its characters), a number, or undefined
StringSelection(str) == [type |-> "string", text |-> str]
NumberSelection(n) == [type |-> "number", number |-> n]
NoSelection == [type |-> "undefined"]

\* providers.find((p) => p.name.toLowerCase().includes(selection.toLowerCase()))
FindByName(providers, name) ==
  LET Match(i) == Includes(toLowerCase(providers[i].name), toLowerCase(name))
  IN  IF \E i \in 1..Len(providers) : Match(i)
      THEN providers[CHOOSE i \in 1..Len(providers) :
                       Match(i) /\ \A j \in 1..(i - 1) : ~Match(j)]
      ELSE Null

\* a resolution that answers an out-of-range number with the first provider
ResolveProviderClamped(providers, selection) ==
  IF selection.type = "string" /\ (selection.text = beste \/ selection.text = best)
  THEN providers[1]
  ELSE IF selection.type = "number"
       THEN LET index == selection.number - 1
            IN  IF index >= 0 /\ index < Len(providers)
                THEN providers[index + 1] ELSE providers[1]
       ELSE IF selection.type = "string"
            THEN FindByName(providers, selection.text)
            ELSE Null

\* the provider handleSelectProvider resolves the selection to, or Null
ResolveProvider(providers, selection) ==
  IF selection.type = "string" /\ (selection.text = beste \/ selection.text = best)
  THEN providers[1]
  ELSE IF selection.type = "number"
       THEN LET index == selection.number - 1
            IN  IF index >= 0 /\ index < Len(providers)
                THEN providers[index + 1] ELSE Null
       ELSE IF selection.type = "string"
            THEN FindByName(providers, selection.text)
            ELSE Null

NotSearchedYet == "Ik heb nog geen praktijken voor je gezocht."
ProviderNotFound == "Ik kon die praktijk niet vinden. Kies een nummer van 1 tot 5, of zeg 'kies de beste'."
ProviderChosen == "Je hebt gekozen voor "

handleSelectProvider(sessions, current, now, selection, draw) ==
  LET session == getCurrentSession(sessions, current)
  IN  IF session = Null \/ session.providers = Null \/ Len(session.providers) = 0
      THEN Handled(sessions, current, <<NotSearchedYet>>, FALSE, Null, 0)
      ELSE
        LET selectedProvider == ResolveProvider(session.providers, selection)
        IN  IF selectedProvider = Null
            THEN Handled(sessions, current, <<ProviderNotFound>>, FALSE, Null, 0)
            ELSE
              LET availableSlots == getAvailableSlots(now, draw)
                  selected == updateSession(sessions, current,
                                            "selectedProvider", selectedProvider)
              IN  Handled(updateSession(selected, current,
                                        "availableSlots", availableSlots),
                          current,
                          <<ProviderChosen, selectedProvider.name, availableSlots>>,
                          FALSE, Null, 0)

\* Date.prototype.toLocaleDateString("nl-NL", {weekday, day, month})
formatDate(date) ==
  [weekday |-> getDay(MakeTime(date[1], date[2] - 1, date[3], 0, 0, 0)),
   day |-> date[3], month |-> date[2]]

\* the date n days after now, as toISOString().split("T")[0] prints it
DaysAhead(now, n) == DatePart(toISOString(setDate(now, Fields(now).d + n)))

\* availableSlots.find((s) => s.date === date)?.slots[0]
FirstSlotOn(availableSlots, date) ==
  IF \E i \in 1..Len(availableSlots) : availableSlots[i].date = date
  THEN availableSlots[CHOOSE i \in 1..Len(availableSlots) :
                        /\ availableSlots[i].date = date
                        /\ \A j \in 1..(i - 1) : availableSlots[j].date # date].slots[1]
  ELSE Null

\* the intent of a select_datetime: selection, task.datetime_preference and
\* task.time_slot, each a string or Null
DateTimeIntent(selection, preference, timeSlot) ==
  [selection |-> selection, datetime_preference |-> preference, time_slot |-> timeSlot]

\* a resolution whose fallback takes the last slot of the first day
ResolveDateTimeLastSlot(availableSlots, intent, now) ==
  LET firstDay == availableSlots[1]
      pref == IF intent.datetime_preference # Null
              THEN toLowerCase(intent.datetime_preference) ELSE <<>>
      chosen ==
        IF intent.selection = eerste \/ intent.selection = first
        THEN [date |-> firstDay.date, time |-> firstDay.slots[1]]
        ELSE IF intent.datetime_preference # Null \/ intent.time_slot # Null
             THEN LET selectedDate ==
                        IF Includes(pref, morgen) \/ Includes(pref, tomorrow)
                        THEN DaysAhead(now, 1)
                        ELSE IF Includes(pref, overmorgen)
                             THEN DaysAhead(now, 2)
                             ELSE firstDay.date
                  IN  [date |-> selectedDate,
                       time |-> IF intent.time_slot # Null
                                THEN intent.time_slot
                                ELSE FirstSlotOn(availableSlots, selectedDate)]
             ELSE [date |-> Null, time |-> Null]
  IN  IF chosen.date = Null \/ chosen.time = Null
      THEN [date |-> firstDay.date, time |-> firstDay.slots[Len(firstDay.slots)]]
      ELSE chosen

\* the {date, time} handleSelectDateTime resolves the intent to
ResolveDateTime(availableSlots, intent, now) ==
  LET firstDay == availableSlots[1]
      pref == IF intent.datetime_preference # Null
              THEN toLowerCase(intent.datetime_preference) ELSE <<>>
      chosen ==
        IF intent.selection = eerste \/ intent.selection = first
        THEN [date |-> firstDay.date, time |-> firstDay.slots[1]]
        ELSE IF intent.datetime_preference # Null \/ intent.time_slot # Null
             THEN LET selectedDate ==
                        IF Includes(pref, morgen) \/ Includes(pref, tomorrow)
                        THEN DaysAhead(now, 1)
                        ELSE IF Includes(pref, overmorgen)
                             THEN DaysAhead(now, 2)
                             ELSE firstDay.date
                  IN  [date |-> selectedDate,
                       time |-> IF intent.time_slot # Null
                                THEN intent.time_slot
                                ELSE FirstSlotOn(availableSlots, selectedDate)]
             ELSE [date |-> Null, time |-> Null]
  IN  IF chosen.date = Null \/ chosen.time = Null
      THEN [date |-> firstDay.date, time |-> firstDay.slots[1]]
      ELSE chosen

ChooseProviderFirst == "Kies eerst een praktijk voordat je een tijd kiest."
NoSlots == "Er zijn geen beschikbare tijdslots. Probeer een andere praktijk."
ReadyToBook == "Perfect! Ik ga een afspraak boeken bij "

handleSelectDateTime(sessions, current, now, intent) ==
  LET session == getCurrentSession(sessions, current)
  IN  IF session = Null \/ session.selectedProvider = Null
      THEN Handled(sessions, current, <<ChooseProviderFirst>>, FALSE, Null, 0)
      ELSE IF session.availableSlots = Null \/ Len(session.availableSlots) = 0
      THEN Handled(sessions, current, <<NoSlots>>, FALSE, Null, 0)
      ELSE
        LET selectedDateTime == ResolveDateTime(session.availableSlots, intent, now)
        IN  Handled(updateSession(sessions, current,
                                  "selectedDateTime", selectedDateTime),
                    current,
                    <<ReadyToBook, session.selectedProvider.name,
                      formatDate(selectedDateTime.date), selectedDateTime.time>>,
                    FALSE, Null, 0)

IsDigit(c) == c \in {"0", "1", "2", "3", "4", "5", "6", "7", "8", "9"}

\* the time of day in a date-time string, "HH:mm" or "HH:mm:ss", as
\* <<h, m, s>>; Null when the text is not of that form (the Date is invalid)
ParseTimeOfDay(str) ==
  IF /\ Len(str) \in {5, 8}
     /\ IsDigit(str[1]) /\ IsDigit(str[2]) /\ str[3] = ":"
     /\ IsDigit(str[4]) /\ IsDigit(str[5])
     /\ (Len(str) = 8 => str[6] = ":" /\ IsDigit(str[7]) /\ IsDigit(str[8]))
  THEN LET h  == parseInt(SubSeq(str, 1, 2))
           mi == parseInt(SubSeq(str, 4, 5))
           sec == IF Len(str) = 8 THEN parseInt(SubSeq(str, 7, 8)) ELSE 0
       IN  IF h <= 23 /\ mi <= 59 /\ sec <= 59 THEN <<h, mi, sec>> ELSE Null
  ELSE Null

\* createBookingEventData: new Date(`${date}T${time}:00`), 30 minutes added
\* for the end, both printed by toISOString; Null stands for the exception
\* thrown (the RangeError of toISOString on an invalid Date, the TypeError of
\* reading a date/time that is not there)
createBookingEventData(dateTime) ==
  LET timeOfDay == IF dateTime = Null THEN Null
                   ELSE ParseTimeOfDay(dateTime.time \o <<":", "0", "0">>)
  IN  IF timeOfDay = Null THEN Null
      ELSE LET startDate == MakeTime(dateTime.date[1], dateTime.date[2] - 1,
                                     dateTime.date[3],
                                     timeOfDay[1], timeOfDay[2], timeOfDay[3])
           IN  [startDateTime |-> toISOString(startDate),
                endDateTime |-> toISOString(startDate + 30 * 60)]

ErrorText == "timeout"
ExecutionSuccess == [success |-> TRUE, confirmationText |-> "Afspraak bevestigd"]
ExecutionFailure == [success |-> FALSE, error |-> ErrorText]

\* what runTask returns for an outcome that is not an exception
ExecutionResult(outcome) ==
  IF outcome = "success" THEN ExecutionSuccess ELSE ExecutionFailure

NothingToConfirm == "Er is geen afspraak om te bevestigen. Zeg 'zoek een tandarts' om te beginnen."
Booked == "Je afspraak is geboekt! "
AddedToCalendar == "De afspraak is toegevoegd aan je Google Calendar."
BookingFailed == "Er ging iets mis bij het boeken: "
RetryQuestion == ". Wil je het opnieuw proberen?"
InvalidTimeValue == "Invalid time value"
ExecutorCrashed == "executor threw"

\* a guard that asks for the provider only
CanConfirmProviderOnly(session) ==
  session # Null /\ session.selectedProvider # Null

\* the guard of handleConfirmAction: session?.selectedProvider and
\* session?.selectedDateTime are both set
CanConfirm(session) ==
  session # Null /\ session.selectedProvider # Null /\ session.selectedDateTime # Null

\* the branch taken when runTask reported success
ConfirmSucceeded(sessions, current, session, result) ==
  IF createBookingEventData(session.selectedDateTime) = Null
  THEN Thrown(sessions, current, InvalidTimeValue, 1)
  ELSE LET cleared == clearSession(sessions, current)
       IN  Handled(cleared.sessions, cleared.current,
                   <<Booked, session.selectedProvider.name,
                     formatDate(session.selectedDateTime.date),
                     session.selectedDateTime.time,
                     result.confirmationText, AddedToCalendar>>,
                   TRUE, result, 1)

\* a failure branch that gives the session up
ConfirmFailedClearsSession(sessions, current, session, result) ==
  Handled({s \in sessions : s.id # current}, Null,
          <<BookingFailed, result.error, RetryQuestion>>, FALSE, result, 1)

\* the branch taken when runTask reported failure
ConfirmFailed(sessions, current, session, result) ==
  Handled(sessions, current, <<BookingFailed, result.error, RetryQuestion>>,
          FALSE, result, 1)

\* executor: how the runTask call ends; calendarOk: what sendBookingToN8n
\* returns, which only the actions log records
handleConfirmAction(sessions, current, executor, calendarOk) ==
  LET session == getCurrentSession(sessions, current)
  IN  IF ~CanConfirm(session)
      THEN Handled(sessions, current, <<NothingToConfirm>>, FALSE, Null, 0)
      ELSE IF executor = "throw"
      THEN Thrown(sessions, current, ExecutorCrashed, 1)
      ELSE LET result == ExecutionResult(executor)
           IN  IF result.success
               THEN ConfirmSucceeded(sessions, current, session, result)
               ELSE ConfirmFailed(sessions, current, session, result)

Cancelled == "Geen probleem, ik heb geannuleerd. Kan ik je ergens anders mee helpen?"

\* handleIntent, case "cancel_action"
handleCancelAction(sessions, current) ==
  LET cleared == clearSession(sessions, current)
  IN  Handled(cleared.sessions, cleared.current, <<Cancelled>>, FALSE, Null, 0)

SomethingWentWrong == "Er ging iets mis: "
SpeechFailed == "speech synthesis failed"

\* a speech-synthesis failure after handling that is returned as an ordinary
\* response without audio
CommandResponseSpeechFailureUnreported(h, tts) ==
  IF h.thrown
  THEN [error |-> TRUE, agentMessage |-> <<SomethingWentWrong>> \o h.message,
        actionExecuted |-> FALSE, executionResult |-> Null, audio |-> tts[1]]
  ELSE [error |-> FALSE, agentMessage |-> h.message,
        actionExecuted |-> h.actionExecuted,
        executionResult |-> h.executionResult, audio |-> tts[1]]

\* the CommandResponse of handleTextCommand once the handler has finished:
\* tts[n] tells whether the n-th generateSpeech call of the command succeeds
CommandResponse(h, tts) ==
  IF h.thrown
  THEN [error |-> TRUE, agentMessage |-> <<SomethingWentWrong>> \o h.message,
        actionExecuted |-> FALSE, executionResult |-> Null, audio |-> tts[1]]
  ELSE IF ~tts[1]
  THEN [error |-> TRUE, agentMessage |-> <<SomethingWentWrong, SpeechFailed>>,
        actionExecuted |-> FALSE, executionResult |-> Null, audio |-> tts[2]]
  ELSE [error |-> FALSE, agentMessage |-> h.message,
        actionExecuted |-> h.actionExecuted,
        executionResult |-> h.executionResult, audio |-> TRUE]

----------------------------------------------------------------------------
(* The booking command pipeline.  One command is handled to completion     *)
(* before the next; the clean-up timer is taken to start at time 0.        *)

\* commands and clock advances in one behaviour
MaxSteps == 5

DentaPlus == Provider("tandarts-2", <<"D","e","n","t","a">>, 45)
SmileCare == Provider("tandarts-1", <<"S","m","i","l","e">>, 48)
ParkAi == Provider("tandarts-ai-0", <<"P","a","r","k">>, 42)
CityAi == Provider("tandarts-ai-1", <<"C","i","t","y">>, 49)

\* the tandarts entries of the provider data, in file order
Catalog == <<DentaPlus, SmileCare>>
\* what an AI search returns, in the order the completion lists them
AiResult == <<ParkAi, CityAi>>

\* searches: <<hasQuery, catalog, aiFirst, aiFallback>>
SearchInputs ==
  { <<FALSE, Catalog, <<>>, <<>>>>,     \* generic search, catalog entries found
    <<TRUE, Catalog, AiResult, <<>>>>,  \* location search answered by the AI
    <<FALSE, <<>>, <<>>, AiResult>>,    \* empty catalog, AI fallback answers
    <<TRUE, <<>>, <<>>, <<>>>> }        \* nothing found anywhere

ProviderSelections ==
  { StringSelection(beste), NumberSelection(2), NumberSelection(3),
    StringSelection(<<"D","E","N","T">>) }

T0900 == <<"0","9",":","0","0">>
T1000 == <<"1","0",":","0","0">>
T1300 == <<"1","3",":","0","0">>
TenUur == <<"1","0"," ","u","u","r">>

\* the slot lists the random draws of getAvailableSlots give days 1..5
SlotDraws ==
  { [i \in 1..5 |-> <<>>],
    [i \in 1..5 |-> IF i = 1 THEN <<T0900, T1300>> ELSE <<>>],
    [i \in 1..5 |-> IF i = 4 THEN <<T1000>> ELSE <<>>] }

DateTimeIntents ==
  { DateTimeIntent(eerste, Null, Null),
    DateTimeIntent(Null, morgen, T1000),
    DateTimeIntent(Null, overmorgen, Null),
    DateTimeIntent(Null, Null, TenUur) }

\* outcomes of the generateSpeech calls of one command
TtsDraws == { <<TRUE, TRUE>>, <<FALSE, TRUE>>, <<FALSE, FALSE>> }

\* seconds the clock advances between commands
ElapseSteps == { SESSION_TTL + 30 }

\* where the booking stood when a command arrived
Stage(session) ==
  IF session = Null THEN "EMPTY"
  ELSE IF session.selectedProvider # Null /\ session.selectedDateTime # Null
       THEN "TIME_SELECTED"
       ELSE IF session.selectedProvider # Null THEN "PROVIDER_SELECTED"
            ELSE "PROVIDERS_LISTED"

\* the most recent command: its intent, where the booking stood, how the
\* executor call (if any) ended, what the handler left and what the command
\* returned
Reply(op, stage, executor, h, tts) ==
  [op |-> op, stage |-> stage, executor |-> executor, calls |-> h.calls,
   handled |-> [thrown |-> h.thrown, message |-> h.message,
                actionExecuted |-> h.actionExecuted,
                executionResult |-> h.executionResult],
   response |-> CommandResponse(h, tts)]

Idle(op) ==
  Reply(op, "EMPTY", "none", Handled({}, Null, <<>>, FALSE, Null, 0), <<TRUE, TRUE>>)

BkInit ==
  /\ clock = 0
  /\ bookingSessions = {}
  /\ currentSessionId = Null
  /\ nextSessionId = 1
  /\ steps = 0
  /\ last = Idle("init")
  /\ WfIdle
  /\ CronIdle
  /\ PendIdle
  /\ NoneInFlight

Complete(op, executor, h, tts) ==
  /\ steps < MaxSteps
  /\ steps' = steps + 1
  /\ bookingSessions' = h.sessions
  /\ currentSessionId' = h.current
  /\ last' = Reply(op, Stage(getCurrentSession(bookingSessions, currentSessionId)),
                   executor, h, tts)
  /\ UNCHANGED clock

CmdConversation(tts) ==
  /\ Complete("conversation", "none",
              Handled(bookingSessions, currentSessionId,
                      <<"Hoe kan ik je helpen?">>, FALSE, Null, 0), tts)
  /\ UNCHANGED nextSessionId

CmdSearchProviders(hasQuery, catalog, aiFirst, aiFallback, tts) ==
  /\ LET h == handleSearchProviders(bookingSessions, currentSessionId,
                                    SessionId(nextSessionId), clock,
                                    hasQuery, catalog, aiFirst, aiFallback)
     IN  /\ Complete("search_providers", "none", h, tts)
         /\ nextSessionId' = IF h.current = SessionId(nextSessionId)
                             THEN nextSessionId + 1 ELSE nextSessionId

CmdSelectProvider(selection, draw, tts) ==
  /\ Complete("select_provider", "none",
              handleSelectProvider(bookingSessions, currentSessionId, clock,
                                   selection, draw), tts)
  /\ UNCHANGED nextSessionId

CmdSelectDateTime(intent, tts) ==
  /\ Complete("select_datetime", "none",
              handleSelectDateTime(bookingSessions, currentSessionId, clock, intent),
              tts)
  /\ UNCHANGED nextSessionId

CmdConfirmAction(executor, calendarOk, tts) ==
  LET h == handleConfirmAction(bookingSessions, currentSessionId, executor, calendarOk)
  IN  /\ Complete("confirm_action", IF h.calls = 0 THEN "none" ELSE executor, h, tts)
      /\ UNCHANGED nextSessionId

CmdCancelAction(tts) ==
  /\ Complete("cancel_action", "none",
              handleCancelAction(bookingSessions, currentSessionId), tts)
  /\ UNCHANGED nextSessionId

\* extractIntent throws: no handler runs
CmdIntentFailure(tts) ==
  /\ Complete("unclassified", "none",
              Thrown(bookingSessions, currentSessionId, "intent extraction failed", 0),
              tts)
  /\ UNCHANGED nextSessionId

\* the timer callbacks that fall due from tick to until, in order
RECURSIVE RunSweeps(_, _, _)
RunSweeps(sessions, tick, until) ==
  IF tick > until THEN sessions
  ELSE RunSweeps(sweepExpired(sessions, tick), tick + SWEEP_PERIOD, until)

\* d seconds pass; the clean-up timer fires at every multiple of its period
Elapse(d) ==
  /\ steps < MaxSteps
  /\ steps' = steps + 1
  /\ clock' = clock + d
  /\ bookingSessions' = RunSweeps(bookingSessions,
                                  ((clock \div SWEEP_PERIOD) + 1) * SWEEP_PERIOD,
                                  clock + d)
  /\ last' = Idle("elapse")
  /\ UNCHANGED <<currentSessionId, nextSessionId>>

BkStep ==
  \/ \E tts \in TtsDraws : CmdConversation(tts)
  \/ \E search \in SearchInputs, tts \in TtsDraws :
       CmdSearchProviders(search[1], search[2], search[3], search[4], tts)
  \/ \E selection \in ProviderSelections, draw \in SlotDraws, tts \in TtsDraws :
       CmdSelectProvider(selection, draw, tts)
  \/ \E intent \in DateTimeIntents, tts \in TtsDraws : CmdSelectDateTime(intent, tts)
  \/ \E executor \in ExecutorOutcomes, calendarOk \in BOOLEAN, tts \in TtsDraws :
       CmdConfirmAction(executor, calendarOk, tts)
  \/ \E tts \in TtsDraws : CmdCancelAction(tts)
  \/ \E tts \in TtsDraws : CmdIntentFailure(tts)
  \/ \E d \in ElapseSteps : Elapse(d)

BkNext == BkStep /\ UNCHANGED <<wfVars, cronVars, pendVars, inflight>>

SpecBooking == BkInit /\ [][BkNext]_vars

----------------------------------------------------------------------------
(* Claims about the booking flow                                           *)

CurrentSession == getCurrentSession(bookingSessions, currentSessionId)

\* C2: handling a confirm_action invokes the executor exactly once when the
\* current session has both selectedProvider and selectedDateTime, and not at
\* all in every other state, where the handler answers that there is nothing
\* to confirm and leaves the session store and the current id as they were.
C2_ConfirmRunsExecutorOnce ==
  [][ last'.op = "confirm_action" =>
        IF Stage(CurrentSession) = "TIME_SELECTED"
        THEN last'.calls = 1
        ELSE /\ last'.calls = 0
             /\ last'.handled.message = <<NothingToConfirm>>
             /\ bookingSessions' = bookingSessions
             /\ currentSessionId' = currentSessionId ]_vars

\* a confirm_action handled on a session with provider and date/time, one
\* executor call made
C2_Witness ==
  /\ last.op = "confirm_action"
  /\ last.stage = "TIME_SELECTED"
  /\ last.calls = 1

\* C3: when confirm_action is handled on a TIME_SELECTED session and the
\* executor reports failure with an error text, the session store and the
\* current id are unchanged (the session is still TIME_SELECTED), the
\* handler's message contains the error text, and a confirm_action handled
\* next invokes the executor again.
C3_FailedBookingKeepsSession ==
  [][ /\ (last'.op = "confirm_action" /\ last'.executor = "failure") =>
           /\ bookingSessions' = bookingSessions
           /\ currentSessionId' = currentSessionId
           /\ Stage(CurrentSession') = "TIME_SELECTED"
           /\ \E i \in 1..Len(last'.handled.message) :
                last'.handled.message[i] = ErrorText
           /\ \A outcome \in ExecutorOutcomes :
                handleConfirmAction(bookingSessions', currentSessionId',
                                    outcome, TRUE).calls = 1
      /\ (last.op = "confirm_action" /\ last.executor = "failure"
            /\ last'.op = "confirm_action") => last'.calls = 1 ]_vars

\* a confirm_action whose executor call failed, the session still in place
C3_Witness ==
  /\ last.op = "confirm_action"
  /\ last.stage = "TIME_SELECTED"
  /\ last.executor = "failure"
  /\ Stage(CurrentSession) = "TIME_SELECTED"

\* C4: whenever the executor reports success for a confirm_action the handler
\* returns the booked result (actionExecuted = true with the executor's
\* result) and the session is gone, however the calendar side call ends.
C4_ExecutorSuccessIsBooked ==
  (last.op = "confirm_action" /\ last.executor = "success") =>
    /\ ~last.handled.thrown
    /\ last.handled.actionExecuted
    /\ last.handled.executionResult = ExecutionSuccess
    /\ currentSessionId = Null

Expired(session, now) ==
  session # Null /\ IsoLess(session.expiresAt, toISOString(now))

\* C5: a command that finds the current session expired (expiresAt before
\* now, the timer not yet having removed it) behaves as if there were no
\* session: select_provider and select_datetime answer as without a session
\* and confirm_action invokes no executor call.
C5_ExpiredSessionIsAbsent ==
  [][ Expired(CurrentSession, clock) =>
        /\ last'.op = "select_provider" => last'.handled.message = <<NotSearchedYet>>
        /\ last'.op = "select_datetime" => last'.handled.message = <<ChooseProviderFirst>>
        /\ last'.op = "confirm_action" =>
             last'.calls = 0 /\ last'.handled.message = <<NothingToConfirm>> ]_vars

\* C6: handling cancel_action removes the current session and leaves no
\* current session, from any state; a confirm_action handled next answers
\* that there is nothing to confirm and invokes no executor call.
C6_CancelClearsSession ==
  [][ /\ last'.op = "cancel_action" =>
           /\ currentSessionId' = Null
           /\ currentSessionId # Null =>
                getSession(bookingSessions', currentSessionId) = Null
           /\ \A outcome \in ExecutorOutcomes :
                handleConfirmAction(bookingSessions', currentSessionId',
                                    outcome, TRUE).calls = 0
      /\ (last.op = "cancel_action" /\ last'.op = "confirm_action") =>
           last'.calls = 0 /\ last'.handled.message = <<NothingToConfirm>> ]_vars

\* a cancel_action handled on a session with provider and date/time
C6_Witness ==
  /\ last.op = "cancel_action"
  /\ last.stage = "TIME_SELECTED"
  /\ currentSessionId = Null
  /\ bookingSessions = {}

\* the current session holds a provider list
Listed == CurrentSession # Null /\ CurrentSession.providers # Null
            /\ Len(CurrentSession.providers) >= 1

\* the session a handler leaves current
After(h) == getCurrentSession(h.sessions, h.current)

\* C16: for every session created by a search (catalog, AI search or AI
\* fallback), select_provider with "beste" or "best" selects the first
\* element of the session's providers, and that element has the highest
\* rating in the list.
C16_BestIsTopRated ==
  Listed =>
    \A selection \in {StringSelection(beste), StringSelection(best)} :
      \A draw \in SlotDraws :
        LET providers == CurrentSession.providers
            h == handleSelectProvider(bookingSessions, currentSessionId, clock,
                                      selection, draw)
        IN  /\ After(h).selectedProvider = providers[1]
            /\ \A i \in 1..Len(providers) :
                 providers[i].rating <= providers[1].rating

\* numbers a select_provider may carry
SelectionNumbers == 0..3

\* C17: with a provider list of length len and a numeric selection n,
\* select_provider sets selectedProvider = providers[n-1] when 1 <= n <= len;
\* when n <= 0 or n > len it is a resolution failure that raises no exception
\* and leaves the session unchanged (a PROVIDERS_LISTED session stays so; no
\* selectedProvider or availableSlots is written).
C17_NumberSelection ==
  Listed =>
    \A n \in SelectionNumbers : \A draw \in SlotDraws :
      LET providers == CurrentSession.providers
          h == handleSelectProvider(bookingSessions, currentSessionId, clock,
                                    NumberSelection(n), draw)
      IN  /\ ~h.thrown
          /\ IF 1 <= n /\ n <= Len(providers)
             THEN After(h).selectedProvider = providers[n]
             ELSE /\ h.sessions = bookingSessions
                  /\ h.current = currentSessionId
                  /\ h.message = <<ProviderNotFound>>
                  /\ Stage(CurrentSession) = "PROVIDERS_LISTED"
                       => /\ Stage(After(h)) = "PROVIDERS_LISTED"
                          /\ After(h).selectedProvider = Null
                          /\ After(h).availableSlots = Null

\* a select_provider has left the second provider of an AI result selected
C17_Witness ==
  /\ last.op = "select_provider"
  /\ Listed
  /\ CurrentSession.providers = AiResult
  /\ CurrentSession.selectedProvider = AiResult[2]

\* the current session has a selected provider and a non-empty availableSlots
Bookable ==
  /\ CurrentSession # Null
  /\ CurrentSession.selectedProvider # Null
  /\ CurrentSession.availableSlots # Null
  /\ Len(CurrentSession.availableSlots) > 0

\* C18: a select_datetime whose preference text contains "overmorgen"
\* resolves the date to the day after tomorrow (today + 2 days), not to
\* tomorrow.
C18_OvermorgenIsDayAfterTomorrow ==
  Bookable =>
    LET h == handleSelectDateTime(bookingSessions, currentSessionId, clock,
                                  DateTimeIntent(Null, overmorgen, T1000))
    IN  After(h).selectedDateTime.date = DatePart(toISOString(clock + 2 * 86400))

\* select_datetime intents: selection, preference and time slot, each
\* present or absent
AnyDateTimeIntents ==
  { DateTimeIntent(selection, preference, timeSlot) :
      selection \in {Null, eerste, first},
      preference \in {Null, morgen, overmorgen, <<"m","a","a","n","d","a","g">>},
      timeSlot \in {Null, TenUur} }

\* the intent gives the handler nothing to resolve a date and a time from:
\* it names no time and either names nothing at all, or names no day, or
\* names tomorrow while tomorrow has no slot
NothingUsable(intent, availableSlots, now) ==
  /\ intent.selection = Null
  /\ intent.time_slot = Null
  /\ \/ intent.datetime_preference = Null
     \/ intent.datetime_preference = <<"m","a","a","n","d","a","g">>
     \/ /\ intent.datetime_preference = morgen
        /\ \A i \in 1..Len(availableSlots) :
             availableSlots[i].date # DatePart(toISOString(now + 86400))

\* C19: every select_datetime intent handled on a session with a selected
\* provider and a non-empty availableSlots sets selectedDateTime with both a
\* date and a time defined and never reports that no slot was found; when
\* the intent resolves to no usable date or time the result is the first
\* slot of the first available day.
C19_DateTimeAlwaysSet ==
  Bookable =>
    \A intent \in AnyDateTimeIntents :
      LET availableSlots == CurrentSession.availableSlots
          h == handleSelectDateTime(bookingSessions, currentSessionId, clock, intent)
          selectedDateTime == After(h).selectedDateTime
      IN  /\ ~h.thrown
          /\ h.message[1] = ReadyToBook
          /\ selectedDateTime # Null
          /\ selectedDateTime.date # Null
          /\ selectedDateTime.time # Null
          /\ NothingUsable(intent, availableSlots, clock) =>
               selectedDateTime = [date |-> availableSlots[1].date,
                                   time |-> availableSlots[1].slots[1]]

\* a select_datetime has left the first slot of the first available day
\* selected, a day that is not tomorrow and that offers a later slot as well
C19_Witness ==
  /\ last.op = "select_datetime"
  /\ Bookable
  /\ CurrentSession.selectedDateTime # Null
  /\ CurrentSession.selectedDateTime.date = CurrentSession.availableSlots[1].date
  /\ CurrentSession.selectedDateTime.time = CurrentSession.availableSlots[1].slots[1]
  /\ Len(CurrentSession.availableSlots[1].slots) > 1

\* C20: every select_provider that resolves to a provider leaves the session
\* in PROVIDER_SELECTED with a non-empty availableSlots, so that a following
\* select_datetime can always pick a slot.
C20_SelectedProviderHasSlots ==
  Listed =>
    \A selection \in ProviderSelections : \A draw \in SlotDraws :
      LET h == handleSelectProvider(bookingSessions, currentSessionId, clock,
                                    selection, draw)
      IN  h.message[1] = ProviderChosen =>
            /\ Stage(After(h)) = "PROVIDER_SELECTED"
            /\ After(h).availableSlots # Null
            /\ Len(After(h).availableSlots) > 0
            /\ \A intent \in DateTimeIntents :
                 handleSelectDateTime(h.sessions, h.current, clock, intent).message[1]
                   = ReadyToBook

\* what the two searches of handleSearchProviders end with
SearchResult(search) ==
  IF Len(IF search[1] THEN search[3] ELSE searchProviders(search[2], 5)) = 0
  THEN search[4]
  ELSE IF search[1] THEN search[3] ELSE searchProviders(search[2], 5)

\* C21: after a search_providers that finds no provider even with the
\* fallback search, handled in EMPTY or in PROVIDERS_LISTED, no session has
\* been created, there is no current session (the orchestrator is in EMPTY),
\* and the handler's answer is the clarifying message.
C21_EmptySearchLeavesEmpty ==
  Stage(CurrentSession) \in {"EMPTY", "PROVIDERS_LISTED"} =>
    \A search \in SearchInputs :
      Len(SearchResult(search)) = 0 =>
        LET h == handleSearchProviders(bookingSessions, currentSessionId,
                                       SessionId(nextSessionId), clock, search[1],
                                       search[2], search[3], search[4])
        IN  /\ h.sessions \subseteq bookingSessions
            /\ h.current = Null
            /\ Stage(After(h)) = "EMPTY"
            /\ h.message = <<NoProvidersFound>>

----------------------------------------------------------------------------
(* The command pipeline with its failure points: transcription (audio      *)
(* commands only), intent classification, the handler, speech synthesis     *)

TryAgain == "Er ging iets mis. Kun je dat nog een keer proberen?"
NotUnderstood == "Ik begrijp je niet helemaal. Kun je dat anders zeggen?"
TranscriptionFailed == "transcription failed"
IntentFailed == "intent extraction failed"

\* the CommandResponse of handleAudioCommand: as handleTextCommand's, the
\* error message being a fixed text
AudioCommandResponse(h, tts) ==
  [CommandResponse(h, tts) EXCEPT
     !.agentMessage = IF CommandResponse(h, tts).error THEN <<TryAgain>> ELSE @]

\* what extractIntent returns, with what the searches, the slot draws and the
\* executor will answer while it is handled
Intent(type, search, selection, draw, datetime, executor) ==
  [type |-> type, search |-> search, selection |-> selection, draw |-> draw,
   datetime |-> datetime, executor |-> executor]

\* handleIntent: the switch on intent.type
handleIntent(sessions, current, id, now, intent) ==
  CASE intent.type = "conversation" ->
         Handled(sessions, current, <<"Hoe kan ik je helpen?">>, FALSE, Null, 0)
    [] intent.type = "search_providers" ->
         handleSearchProviders(sessions, current, id, now, intent.search[1],
                               intent.search[2], intent.search[3], intent.search[4])
    [] intent.type = "select_provider" ->
         handleSelectProvider(sessions, current, now, intent.selection, intent.draw)
    [] intent.type = "select_datetime" ->
         handleSelectDateTime(sessions, current, now, intent.datetime)
    [] intent.type = "confirm_action" ->
         handleConfirmAction(sessions, current, intent.executor, TRUE)
    [] intent.type = "cancel_action" ->
         handleCancelAction(sessions, current)
    [] OTHER -> Handled(sessions, current, <<NotUnderstood>>, FALSE, Null, 0)

CatalogSearch == <<FALSE, Catalog, <<>>, <<>>>>
WeekSlots == [i \in 1..5 |-> IF i = 1 THEN <<T0900, T1300>> ELSE <<>>]

PipeIntents ==
  { Intent("conversation", CatalogSearch, NoSelection, WeekSlots, Null, "none"),
    Intent("search_providers", CatalogSearch, NoSelection, WeekSlots, Null, "none"),
    Intent("select_provider", CatalogSearch, StringSelection(beste), WeekSlots, Null, "none"),
    Intent("select_datetime", CatalogSearch, NoSelection, WeekSlots,
           DateTimeIntent(eerste, Null, Null), "none"),
    Intent("cancel_action", CatalogSearch, NoSelection, WeekSlots, Null, "none"),
    Intent("create_recurring_task", CatalogSearch, NoSelection, WeekSlots, Null, "none") }
  \cup { Intent("confirm_action", CatalogSearch, NoSelection, WeekSlots, Null, executor) :
           executor \in ExecutorOutcomes }

\* the most recent command: how it came in, which of its steps succeeded,
\* what the handler (if it ran) left, and what the command returned
PipeReply(kind, stt, classified, tts, type, executor, h, response) ==
  [kind |-> kind, stt |-> stt, classified |-> classified, tts |-> tts,
   type |-> type, executor |-> IF h.calls = 0 THEN "none" ELSE executor,
   thrown |-> h.thrown, calls |-> h.calls, response |-> response]

PipeInit ==
  /\ clock = 0
  /\ bookingSessions = {}
  /\ currentSessionId = Null
  /\ nextSessionId = 1
  /\ steps = 0
  /\ last = PipeReply("none", TRUE, TRUE, <<TRUE, TRUE>>, "init", "none",
                      Handled({}, Null, <<>>, FALSE, Null, 0), Null)
  /\ WfIdle
  /\ CronIdle
  /\ PendIdle
  /\ NoneInFlight

\* handleAudioCommand / handleTextCommand: stt and classified tell whether
\* transcribeAudio and extractIntent succeed, tts[n] whether the n-th
\* generateSpeech call does; a text command has no transcription step
Command(kind, stt, classified, intent, tts) ==
  /\ steps < MaxSteps
  /\ kind = "text" => stt
  /\ \E h \in { IF ~stt
                 THEN Thrown(bookingSessions, currentSessionId, TranscriptionFailed, 0)
                 ELSE IF ~classified
                 THEN Thrown(bookingSessions, currentSessionId, IntentFailed, 0)
                 ELSE handleIntent(bookingSessions, currentSessionId,
                                   SessionId(nextSessionId), clock, intent) } :
         /\ bookingSessions' = h.sessions
         /\ currentSessionId' = h.current
         /\ nextSessionId' = IF h.current = SessionId(nextSessionId)
                             THEN nextSessionId + 1 ELSE nextSessionId
         /\ last' = PipeReply(kind, stt, classified, tts, intent.type, intent.executor, h,
                              IF kind = "audio" THEN AudioCommandResponse(h, tts)
                              ELSE CommandResponse(h, tts))
  /\ steps' = steps + 1
  /\ UNCHANGED clock

PipeStep ==
  \E kind \in {"audio", "text"}, stt \in BOOLEAN, classified \in BOOLEAN,
     intent \in PipeIntents, tts \in TtsDraws :
    Command(kind, stt, classified, intent, tts)

PipeNext == PipeStep /\ UNCHANGED <<wfVars, cronVars, pendVars, inflight>>

SpecPipeline == PipeInit /\ [][PipeNext]_vars

\* a step of the most recent command failed
SomeStepFailed ==
  \/ ~last.stt
  \/ ~last.classified
  \/ last.thrown
  \/ ~last.tts[1]

\* the generateSpeech call that spoke the error message failed: the first
\* call of the command when an earlier step failed, the second when the
\* failure was the first call itself
ErrorSpeechFailed ==
  IF ~last.stt \/ ~last.classified \/ last.thrown THEN ~last.tts[1] ELSE ~last.tts[2]

\* C22: a command, audio or text, always returns a response; when
\* transcription, intent classification, the handler or speech synthesis
\* failed the response carries an error message, and when the synthesis of
\* that error message failed too its audio field is empty.
C22_CommandNeverThrows ==
  last.type # "init" =>
    /\ DOMAIN last.response
         = {"error", "agentMessage", "actionExecuted", "executionResult", "audio"}
    /\ SomeStepFailed =>
         /\ last.response.error
         /\ last.response.agentMessage[1] = IF last.kind = "audio" THEN TryAgain
                                            ELSE SomethingWentWrong
         /\ ~last.response.actionExecuted
         /\ ErrorSpeechFailed => ~last.response.audio
         /\ ~ErrorSpeechFailed => last.response.audio
    /\ ~SomeStepFailed => ~last.response.error /\ last.response.audio

\* an audio command whose handler booked the appointment, whose speech
\* synthesis failed, and whose error message could not be spoken either
C22_Witness ==
  /\ last.kind = "audio"
  /\ last.type = "confirm_action"
  /\ last.calls = 1
  /\ ~last.thrown
  /\ last.tts = <<FALSE, FALSE>>
  /\ last.response.error
  /\ ~last.response.audio

----------------------------------------------------------------------------
(* Reading workflows.json may fail                                          *)

\* getWorkflows: the parsed file, or [] when reading or parsing it threw
\* (the catch logs the error and falls through to return [])
getWorkflows(file, readable) == IF readable THEN file ELSE <<>>

\* C23: when reading the workflow store fails during a workflow create, the
\* create fails as a whole and the stored workflows are unchanged: the read
\* error is not replaced by an empty list that is written back over the
\* existing records.
C23_ReadFailureKeepsStore ==
  Len(workflows) > 0 =>
    \A input \in CreateInputs :
      createWorkflow(getWorkflows(workflows, FALSE), nextWfId,
                     input[1], input[2], clock) = workflows

----------------------------------------------------------------------------
(* The pending-action variant of the command controller: an action_request *)
(* is stored and runs only when a confirm_action consumes it                *)

\* 5 * 60 * 1000 ms
PENDING_TTL == 5 * 60

\* intent.task: one-time or recurring (recurring tasks carry an interval)
Task(kind, recurring, interval) ==
  [kind |-> kind, recurring |-> recurring, interval |-> interval]

\* createPendingAction: the map afterwards
createPendingAction(pending, id, task, now) ==
  Append(pending, [id |-> id, task |-> task, createdAt |-> toISOString(now),
                   expiresAt |-> toISOString(now + PENDING_TTL)])

\* consumePendingAction: the entry it returns (Null on an empty map) and the
\* map afterwards
consumePendingAction(pending) ==
  IF Len(pending) = 0
  THEN [action |-> Null, pending |-> pending]
  ELSE [action |-> pending[Len(pending)],
        pending |-> SubSeq(pending, 1, Len(pending) - 1)]

\* a clear that removes nothing
clearPendingActionsKeepsAll(pending) == pending

\* clearPendingActions: the map afterwards
clearPendingActions(pending) == <<>>

\* the clean-up timer's callback at time now
sweepPendingActions(pending, now) ==
  SelectSeq(pending, LAMBDA a : ~IsoLess(a.expiresAt, toISOString(now)))

\* what executeTask leaves: the workflow store, the number of runTask calls,
\* and the ExecutionResult it returned or the fact that runTask threw
executeTask(store, wfId, now, task, executor) ==
  IF task.recurring /\ task.interval # Null /\ Len(task.interval) > 0
  THEN [store |-> createWorkflow(store, wfId, task.interval, NoSchedule, now),
        calls |-> 1, thrown |-> executor = "throw",
        result |-> [success |-> TRUE, message |-> "Workflow created and first run completed"]]
  ELSE [store |-> store, calls |-> 1, thrown |-> executor = "throw",
        result |-> [success |-> executor = "success",
                    message |-> IF executor = "success" THEN "Task completed" ELSE ErrorText]]

MissingDetails == "Ik begrijp wat je wilt doen, maar ik mis wat details. Kun je specifieker zijn?"
ConfirmQuestion == "Wil je dat ik dit doe? Zeg \"ja\" om te bevestigen of \"nee\" om te annuleren."
NoActionToConfirm == "Er is geen actie om te bevestigen. Wat wil je dat ik doe?"
ActionCancelled == "Geen probleem, ik heb de actie geannuleerd. Kan ik je ergens anders mee helpen?"

\* what a handler of this variant leaves: the pending map, the workflow
\* store, and its HandleIntentResult or the exception it threw; consumed is
\* the pending action it took off the map (Null when it took none)
Outcome(pending, store, thrown, message, actionExecuted, executionResult, calls, consumed) ==
  [pending |-> pending, store |-> store, thrown |-> thrown, message |-> message,
   actionExecuted |-> actionExecuted, executionResult |-> executionResult,
   calls |-> calls, consumed |-> consumed]

\* the confirm_action branch once a pending action was consumed: consumed is
\* what consumePendingAction returned, executed what executeTask left
Confirmed(consumed, executed) ==
  Outcome(consumed.pending, executed.store, executed.thrown,
          IF executed.thrown THEN <<ExecutorCrashed>> ELSE <<"result", executed.result.message>>,
          ~executed.thrown,
          IF executed.thrown THEN Null ELSE executed.result,
          executed.calls, consumed.action)

\* handleIntent of the pending-action controller
handlePendingIntent(pending, store, actionId, wfId, now, type, task, executor) ==
  CASE type = "conversation" ->
         Outcome(pending, store, FALSE, <<NotUnderstood>>, FALSE, Null, 0, Null)
    [] type = "action_request" ->
         IF task = Null
         THEN Outcome(pending, store, FALSE, <<MissingDetails>>, FALSE, Null, 0, Null)
         ELSE Outcome(createPendingAction(pending, actionId, task, now), store,
                      FALSE, <<ConfirmQuestion>>, FALSE, Null, 0, Null)
    [] type = "confirm_action" ->
         IF Len(pending) = 0
         THEN Outcome(pending, store, FALSE, <<NoActionToConfirm>>, FALSE, Null, 0, Null)
         ELSE Confirmed(consumePendingAction(pending),
                        executeTask(store, wfId, now, pending[Len(pending)].task, executor))
    [] type = "cancel_action" ->
         Outcome(clearPendingActions(pending), store, FALSE, <<ActionCancelled>>,
                 FALSE, Null, 0, Null)
    [] OTHER ->
         Outcome(pending, store, FALSE, <<NotUnderstood>>, FALSE, Null, 0, Null)

BookOnce == Task("booking", FALSE, Null)
BookEveryMinute == Task("booking", TRUE, PT1M)

\* the task of an action_request; Null when the classifier gave none
RequestTasks == { Null, BookOnce, BookEveryMinute }

\* the most recent command of this variant
PendReply(type, executor, h, tts) ==
  [type |-> type, executor |-> executor, calls |-> h.calls, consumed |-> h.consumed,
   thrown |-> h.thrown, message |-> h.message, response |-> CommandResponse(h, tts)]

PendInit ==
  /\ clock = 0
  /\ pendingActions = <<>>
  /\ nextActionId = 1
  /\ workflows = <<>>
  /\ nextWfId = 1
  /\ created = 0
  /\ executions = <<>>
  /\ nextExecId = 1
  /\ steps = 0
  /\ last = PendReply("init", "none",
                      Outcome(<<>>, <<>>, FALSE, <<>>, FALSE, Null, 0, Null),
                      <<TRUE, TRUE>>)
  /\ bookingSessions = {} /\ currentSessionId = Null /\ nextSessionId = 1
  /\ CronIdle
  /\ NoneInFlight

\* handleTextCommand of this variant, the intent classified as type
PendCommand(type, task, executor, tts) ==
  /\ steps < MaxSteps
  /\ type # "action_request" => task = Null
  /\ \E h \in {handlePendingIntent(pendingActions, workflows, nextActionId, nextWfId,
                                    clock, type, task, executor)} :
         /\ (type # "confirm_action" \/ h.calls = 0) => executor = "success"
         /\ pendingActions' = h.pending
         /\ nextActionId' = IF Len(h.pending) > Len(pendingActions)
                            THEN nextActionId + 1 ELSE nextActionId
         /\ workflows' = h.store
         /\ nextWfId' = IF Len(h.store) > Len(workflows) THEN nextWfId + 1 ELSE nextWfId
         /\ created' = IF Len(h.store) > Len(workflows) THEN created + 1 ELSE created
         /\ last' = PendReply(type, IF h.calls = 0 THEN "none" ELSE executor, h, tts)
  /\ steps' = steps + 1
  /\ UNCHANGED <<clock, executions, nextExecId>>

\* d seconds pass; the clean-up timer fires at every multiple of its period
\* (one sweep at the end removes what the sweeps in between would have)
PendElapse(d) ==
  /\ steps < MaxSteps
  /\ steps' = steps + 1
  /\ clock' = clock + d
  /\ pendingActions' =
       IF (clock + d) \div SWEEP_PERIOD > clock \div SWEEP_PERIOD
       THEN sweepPendingActions(pendingActions, ((clock + d) \div SWEEP_PERIOD) * SWEEP_PERIOD)
       ELSE pendingActions
  /\ last' = PendReply("elapse", "none",
                       Outcome(<<>>, <<>>, FALSE, <<>>, FALSE, Null, 0, Null),
                       <<TRUE, TRUE>>)
  /\ UNCHANGED <<nextActionId, workflows, executions, nextWfId, nextExecId, created>>

PendElapseSteps == { 45, PENDING_TTL + 30 }

PendStep ==
  \/ \E type \in {"conversation", "action_request", "confirm_action", "cancel_action"},
        task \in RequestTasks, executor \in ExecutorOutcomes, tts \in TtsDraws :
       PendCommand(type, task, executor, tts)
  \/ \E d \in PendElapseSteps : PendElapse(d)

PendNext ==
  PendStep /\ UNCHANGED <<cronVars, bookingSessions, currentSessionId, nextSessionId, inflight>>

SpecPending == PendInit /\ [][PendNext]_vars

\* C24: the executor and workflow creation run only while a confirm_action
\* is handled that consumed a pending action created by an earlier
\* action_request; handling action_request, conversation or cancel_action
\* invokes no executor call, and after a cancel_action a confirm_action
\* finds nothing to confirm.
C24_ExecutorOnlyAfterConfirm ==
  [][ /\ (last'.calls > 0 \/ workflows' # workflows) =>
           /\ last'.type = "confirm_action"
           /\ last'.calls = 1
           /\ Len(pendingActions) > 0
           /\ last'.consumed = pendingActions[Len(pendingActions)]
           /\ last'.consumed.id \in 1..(nextActionId - 1)
           /\ last'.consumed.task \in RequestTasks \ {Null}
           /\ pendingActions' = SubSeq(pendingActions, 1, Len(pendingActions) - 1)
      /\ last'.type \in {"action_request", "conversation", "cancel_action"} =>
           /\ last'.calls = 0
           /\ workflows' = workflows
      /\ last'.type = "cancel_action" =>
           /\ pendingActions' = <<>>
           /\ \A executor \in ExecutorOutcomes :
                handlePendingIntent(pendingActions', workflows', nextActionId',
                                    nextWfId', clock', "confirm_action", Null,
                                    executor).calls = 0
      /\ (last.type = "cancel_action" /\ last'.type = "confirm_action") =>
           /\ last'.calls = 0
           /\ last'.message = <<NoActionToConfirm>> ]_vars

\* a confirm_action handled right after a cancel_action that cleared two
\* pending actions: nothing was run
C24_Witness ==
  /\ last.type = "confirm_action"
  /\ last.calls = 0
  /\ last.message = <<NoActionToConfirm>>
  /\ nextActionId = 3
  /\ pendingActions = <<>>
  /\ workflows = <<>>

\* C30: at most one action awaits confirmation at any time: once a
\* confirm_action has been handled no pending action remains, and a second
\* confirm_action with no action_request in between invokes no executor
\* call, however many action_requests preceded the first confirmation.
C30_OnePendingAction ==
  [][ /\ Len(pendingActions') <= 1
      /\ last'.type = "confirm_action" => pendingActions' = <<>>
      /\ (last.type = "confirm_action" /\ last'.type = "confirm_action") =>
           last'.calls = 0 ]_vars

----------------------------------------------------------------------------
(* create_recurring_task with its first run awaited: the scheduler may be   *)
(* triggered between the creation of the workflow and the end of the run    *)

\* createWorkflow of services/database.ts: no next_run, last_run null
createWorkflowLegacy(store, id, interval, now) ==
  Append(store, LegacyWorkflow(id, interval, now))

\* a first run: the workflow it belongs to, whether runTask has returned,
\* and when it did
FirstRun(id, done, endedAt) == [id |-> id, done |-> done, endedAt |-> endedAt]

RecInit ==
  /\ clock = 0
  /\ workflows = <<>>
  /\ nextWfId = 1
  /\ created = 0
  /\ executions = <<>>
  /\ nextExecId = 1
  /\ inflight = <<>>
  /\ last = Op("init", 0, "ok", <<>>, 0)
  /\ CronIdle
  /\ BkIdle
  /\ PendIdle

\* executeIntent, case "create_recurring_task", up to "await runTask(task)"
BeginCreateRecurring(interval) ==
  /\ created < MaxCreates
  /\ \A i \in 1..Len(inflight) : inflight[i].done
  /\ workflows' = createWorkflowLegacy(workflows, nextWfId,
                                       IF interval # Null THEN interval
                                       ELSE <<"P","3","M">>, clock)
  /\ inflight' = Append(inflight, FirstRun(nextWfId, FALSE, Null))
  /\ nextWfId' = nextWfId + 1
  /\ created' = created + 1
  /\ last' = Op("createRecurring", nextWfId, "awaiting", <<>>, clock)
  /\ UNCHANGED <<clock, executions, nextExecId>>

\* ... and from the moment runTask returns or throws: last_run is set only
\* when the first run succeeded
FinishCreateRecurring(outcome) ==
  /\ Len(inflight) > 0
  /\ ~inflight[Len(inflight)].done
  /\ workflows' = IF outcome = "success"
                  THEN updateWorkflowLastRun(workflows, inflight[Len(inflight)].id, clock)
                  ELSE workflows
  /\ inflight' = [inflight EXCEPT ![Len(inflight)] =
                    FirstRun(inflight[Len(inflight)].id, TRUE, toISOString(clock))]
  /\ last' = Op("createRecurring", inflight[Len(inflight)].id, outcome, <<>>, clock)
  /\ UNCHANGED <<clock, executions, nextWfId, nextExecId, created>>

RecStep ==
  \/ \E d \in ClockSteps : AdvanceClock(d) /\ UNCHANGED inflight
  \/ \E interval \in TaskIntervals : BeginCreateRecurring(interval)
  \/ \E outcome \in ExecutorOutcomes : FinishCreateRecurring(outcome)
  \/ RunScheduledTasks /\ UNCHANGED inflight

RecNext == RecStep /\ UNCHANGED <<cronVars, bkVars, pendVars>>

SpecRecurring == RecInit /\ [][RecNext]_vars

\* the first run of workflow id, Null when the command has not started it
FirstRunOf(id) ==
  IF \E i \in 1..Len(inflight) : inflight[i].id = id
  THEN inflight[CHOOSE i \in 1..Len(inflight) : inflight[i].id = id]
  ELSE Null

\* C25: a workflow created by a create_recurring_task command is not
\* executed by the scheduled-run driver before one interval has elapsed
\* since the first run the command performs: not while that first run is
\* still awaited, and not when it failed.
C25_NoRunBeforeInterval ==
  [][ last'.op = "checkWorkflows" =>
        \A i \in 1..Len(last'.ret) :
          LET w == workflows[FindIndex(workflows, last'.ret[i].id)]
          IN  /\ FirstRunOf(w.id) # Null
              /\ FirstRunOf(w.id).done
              /\ clock >= NewDate(FirstRunOf(w.id).endedAt)
                            + parseIntervalToMs(w.interval) ]_vars

----------------------------------------------------------------------------
(* Further claims about the booking flow                                    *)

\* C26: whenever confirm_action invokes the executor, the session's
\* selectedDateTime was set by a select_datetime handled after the most
\* recent successful select_provider: choosing a provider on a session that
\* already has a selectedDateTime discards that date and time, so that a
\* confirm_action handled next has nothing to confirm.
C26_NewProviderDiscardsDateTime ==
  Stage(CurrentSession) = "TIME_SELECTED" =>
    \A selection \in ProviderSelections : \A draw \in SlotDraws :
      LET h == handleSelectProvider(bookingSessions, currentSessionId, clock,
                                    selection, draw)
      IN  h.message[1] = ProviderChosen =>
            /\ After(h).selectedDateTime = Null
            /\ handleConfirmAction(h.sessions, h.current, "success", TRUE).calls = 0

\* C27: when a command returns the error response, the session store and
\* the current-session pointer are the same as before the command and no
\* executor call succeeded during it; a speech-synthesis failure after the
\* handler does not leave a booked-and-cleared or half-advanced session
\* behind an error message.
C27_ErrorResponseLeavesSessions ==
  [][ (last'.type # "init" /\ last'.response.error) =>
        /\ bookingSessions' = bookingSessions
        /\ currentSessionId' = currentSessionId
        /\ last'.executor # "success" ]_vars

----------------------------------------------------------------------------
(* Overlapping commands: handleConfirmAction awaits runTask, and a second   *)
(* command may be handled before the first one resumes                      *)

\* handleConfirmAction up to "await runTask(task)": the call keeps the
\* session object it read
BeginConfirm(tts) ==
  /\ steps < MaxSteps
  /\ CanConfirm(CurrentSession)
  /\ steps' = steps + 1
  /\ inflight' = Append(inflight, [session |-> CurrentSession, tts |-> tts])
  /\ last' = Reply("confirm_action", Stage(CurrentSession), "awaiting",
                   Handled(bookingSessions, currentSessionId, <<>>, FALSE, Null, 1),
                   <<TRUE, TRUE>>)
  /\ UNCHANGED <<clock, bookingSessions, currentSessionId, nextSessionId>>

\* ... and from the moment runTask returns or throws (the calendar call
\* that follows a success is taken to return at once)
FinishConfirm(i, executor) ==
  /\ i \in 1..Len(inflight)
  /\ \E h \in { IF executor = "throw"
                THEN Thrown(bookingSessions, currentSessionId, ExecutorCrashed, 1)
                ELSE IF executor = "success"
                THEN ConfirmSucceeded(bookingSessions, currentSessionId,
                                      inflight[i].session, ExecutionResult(executor))
                ELSE ConfirmFailed(bookingSessions, currentSessionId,
                                   inflight[i].session, ExecutionResult(executor)) } :
       /\ bookingSessions' = h.sessions
       /\ currentSessionId' = h.current
       /\ last' = Reply("confirm_action", Stage(inflight[i].session), executor, h,
                        inflight[i].tts)
  /\ inflight' = SubSeq(inflight, 1, i - 1) \o SubSeq(inflight, i + 1, Len(inflight))
  /\ UNCHANGED <<clock, nextSessionId, steps>>

\* a confirm_action that finds nothing to confirm returns without awaiting
ConfirmNothing(tts) ==
  /\ ~CanConfirm(CurrentSession)
  /\ CmdConfirmAction("success", TRUE, tts)

OverlapTts == { <<TRUE, TRUE>>, <<FALSE, TRUE>> }

OverlapStep ==
  \/ \E tts \in OverlapTts :
       /\ CmdSearchProviders(CatalogSearch[1], CatalogSearch[2], CatalogSearch[3],
                             CatalogSearch[4], tts)
       /\ UNCHANGED inflight
  \/ \E selection \in {StringSelection(beste), NumberSelection(2)}, tts \in OverlapTts :
       CmdSelectProvider(selection, WeekSlots, tts) /\ UNCHANGED inflight
  \/ \E tts \in OverlapTts :
       CmdSelectDateTime(DateTimeIntent(eerste, Null, Null), tts) /\ UNCHANGED inflight
  \/ \E tts \in OverlapTts : CmdCancelAction(tts) /\ UNCHANGED inflight
  \/ \E tts \in OverlapTts : ConfirmNothing(tts) /\ UNCHANGED inflight
  \/ \E tts \in OverlapTts : BeginConfirm(tts)
  \/ \E i \in 1..Len(inflight), executor \in ExecutorOutcomes : FinishConfirm(i, executor)

OverlapNext == OverlapStep /\ UNCHANGED <<wfVars, cronVars, pendVars>>

SpecOverlap == BkInit /\ [][OverlapNext]_vars

\* C28: when two confirm_action commands overlap on the same TIME_SELECTED
\* session (the second is handled while the first is awaiting the
\* executor), the executor is invoked at most once for that booking.
C28_OverlappingConfirmRunsOnce ==
  \A i, j \in 1..Len(inflight) :
    inflight[i].session.id = inflight[j].session.id => i = j

----------------------------------------------------------------------------
(* The scheduled-run driver with its awaits: requests may be handled while  *)
(* the driver awaits runTask for one of the due workflows                   *)

\* a batch in progress: the driver's snapshot of the time, its list of due
\* workflows, the index of the one whose run is awaited, and how the runs
\* before it ended
Batch(now, due, i, outcomes) ==
  [now |-> now, due |-> due, i |-> i, outcomes |-> outcomes]

BatchInit ==
  /\ WfInit
  /\ NoneInFlight

\* runScheduledTasks up to its first "await runTask(task)"; with nothing due
\* it returns at once
BeginBatch ==
  /\ inflight = <<>>
  /\ \E due \in {getDueWorkflows(workflows, clock)} :
       IF Len(due) = 0
       THEN /\ inflight' = inflight
            /\ last' = Op("checkWorkflows", 0, "returned", <<>>, clock)
       ELSE /\ inflight' = <<Batch(clock, due, 1, <<>>)>>
            /\ last' = Op("runTask", due[1].id, "invoked", <<>>, clock)
  /\ UNCHANGED <<clock, workflows, executions, nextWfId, nextExecId, created>>

\* runTask returns or throws for the workflow whose turn it is: last_run is
\* updated unless it threw, then the loop calls runTask for the next due
\* workflow or, at the end of the list, the driver returns
ResumeBatch(outcome) ==
  /\ Len(inflight) = 1
  /\ \E b \in {inflight[1]} :
       /\ workflows' = IF outcome # "throw"
                       THEN updateWorkflowLastRun(workflows, b.due[b.i].id, b.now)
                       ELSE workflows
       /\ IF b.i < Len(b.due)
          THEN /\ inflight' = <<Batch(b.now, b.due, b.i + 1, Append(b.outcomes, outcome))>>
               /\ last' = Op("runTask", b.due[b.i + 1].id, "invoked", <<>>, b.now)
          ELSE /\ inflight' = <<>>
               /\ last' = Op("checkWorkflows", 0, "returned",
                             executedWorkflows(b.due, Append(b.outcomes, outcome), b.now),
                             b.now)
  /\ UNCHANGED <<clock, executions, nextWfId, nextExecId, created>>

BatchStep ==
  \/ \E d \in ClockSteps : AdvanceClock(d) /\ UNCHANGED inflight
  \/ \E in \in CreateInputs : PostWorkflow(in[1], in[2]) /\ UNCHANGED inflight
  \/ \E id \in WorkflowIds : DeleteWorkflow(id) /\ UNCHANGED inflight
  \/ BeginBatch
  \/ \E outcome \in ExecutorOutcomes : ResumeBatch(outcome)

BatchNext == BatchStep /\ UNCHANGED <<cronVars, bkVars, pendVars>>

SpecBatch == BatchInit /\ [][BatchNext]_vars

\* C29: a workflow deleted while a batch is in progress, before its turn, is
\* not executed by the batch after its deletion (the driver calls runTask
\* only for workflows that are still stored), and the batch's last-run
\* updates neither re-create it nor disturb other workflows: a resumed
\* batch changes nothing but last_run of the stored workflow it just ran.
C29_DeletedNotRunByBatch ==
  [][ /\ last'.op = "runTask" => FindIndex(workflows', last'.id) # 0
      /\ (Len(inflight) = 1 /\ last'.op \in {"runTask", "checkWorkflows"}) =>
           /\ Len(workflows') = Len(workflows)
           /\ \A k \in 1..Len(workflows) :
                \/ workflows'[k] = workflows[k]
                \/ /\ workflows[k].id = inflight[1].due[inflight[1].i].id
                   /\ workflows'[k] = [workflows[k] EXCEPT
                                         !.last_run = toISOString(inflight[1].now)] ]_vars

====
